---- MODULE Spec2Model ----
(***************************************************************************)
(* LinkMatch: the confidential score ledger (the LinkMatch contract) and   *)
(* the Encrypted Value Backend it calls.                                    *)
(*                                                                         *)
(* A transaction is sent to the chain (SendTransaction), waits in the      *)
(* mempool and is executed by the EVM as one step (ExecuteTransaction),    *)
(* which either applies the whole of submitGameResult or reverts.          *)
(*                                                                         *)
(* The second part is the useLinkMatch hook of one browser session: its    *)
(* state, the wallet and chain it is given, and its asynchronous           *)
(* workflows, each await being a step of its own (ClientSpec).             *)
(***************************************************************************)
EXTENDS Naturals, Sequences, FiniteSets, TLC

VARIABLES
    players,        \* address[] public players
    hasSubmitted,   \* mapping(address => bool) public hasSubmitted
    playerResults,  \* mapping(address => EncryptedGameResult) public playerResults
    acl,            \* backend ACL: the set of <<handle, principal>> grants
    events,         \* the GameResultSubmitted log of the contract
    now,            \* block.timestamp of the block being built
    mempool,        \* transactions sent and not yet executed
    receipts,       \* the chain's history: one receipt per executed transaction
    \* what the hook is given
    chainId,        \* the active chain, 0 when there is none
    ethersSigner,   \* the active signer (its address), "" when there is none
    instance,       \* whether an FhevmInstance is there
    \* the hook's state
    playerResultHandle,  \* <<>> when undefined, else the handle
    clearResult,         \* clearResult and clearResultRef: <<>> or <<handle, clear>>
    isRefreshing,        \* isRefreshingRef
    isDecrypting,        \* isDecryptingRef
    isSubmitting,        \* isSubmittingRef
    message,
    \* the asynchronous runs in flight, each with what its closure captured
    submitRuns,
    decryptRuns,
    refreshRuns,
    \* what the session has done so far
    calls,          \* how often each operation was called, and the call last ignored
    sent,           \* the transactions the hook sent, with the run that sent each
    \* the decryption authorizations
    signatureStorage,  \* fhevmDecryptionSignatureStorage: the signatures kept
    clock,             \* the client's clock, in days
    loaded,            \* the latest loadOrSign call and what it returned
    \* the leaderboard
    leaderboard,           \* the entries shown: address and encryptedScore
    isLoadingLeaderboard,
    leaderboardRuns,       \* the fetchLeaderboard calls in flight
    \* the hook's hasSubmitted state and the effect that sets it
    hook_hasSubmitted,     \* hasSubmitted of useLinkMatch
    effectDeps,            \* the dependencies the effect last ran with
    effectRuns,            \* the hasSubmitted(address) reads in flight
    \* the tile game
    grid,                  \* the cells' values, by id; 0 means eliminated
    selectedCells,
    matches,
    gameState,
    timers,                \* the setTimeout callbacks not yet run
    completed              \* what onGameComplete was last called with

ledgerVars == <<players, hasSubmitted, playerResults, acl, events, now, mempool, receipts>>
envVars == <<chainId, ethersSigner, instance>>
hookVars == <<playerResultHandle, clearResult, isRefreshing, isDecrypting, isSubmitting,
              message>>
runVars == <<submitRuns, decryptRuns, refreshRuns>>
authVars == <<signatureStorage, clock, loaded>>
boardVars == <<leaderboard, isLoadingLeaderboard, leaderboardRuns>>
flagVars == <<hook_hasSubmitted, effectDeps, effectRuns>>
gameVars == <<grid, selectedCells, matches, gameState, timers, completed>>
pageVars == <<flagVars, gameVars>>
clientVars == <<envVars, hookVars, runVars, calls, sent, authVars, boardVars, pageVars>>

vars == <<ledgerVars, clientVars>>

(***************************************************************************)
(* Bounds of the model.                                                    *)
(***************************************************************************)
MaxScore == 2      \* plaintext scores are 0..MaxScore
MaxCalls == 3      \* transactions sent over a behaviour

Address == {"alice", "bob"}
ZeroAddress == "0x0"
LinkMatchAddress == "LinkMatch"
OtherContract == "OtherContract"
Scores == 0..MaxScore

Max(a, b) == IF a >= b THEN a ELSE b

RECURSIVE MaxOfSet(_)
MaxOfSet(S) ==
    IF S = {} THEN 0
    ELSE LET x == CHOOSE y \in S : TRUE IN Max(x, MaxOfSet(S \ {x}))

(***************************************************************************)
(* Ciphertext handles.  A handle is opaque to the ledger; the backend      *)
(* alone knows what it decrypts to.  An input handle is bound to the       *)
(* (user, contract) pair it was encrypted for.                             *)
(***************************************************************************)
ZeroHandle == <<"zero">>
InputHandle(user, contract, value) == <<"input", user, contract, value>>
MaxHandle(lhs, rhs) == <<"max", lhs, rhs>>

\* createEncryptedInput(contract, user).add32(value).encrypt(): handle and proof
Encrypt(contract, user, value) ==
    [handle |-> InputHandle(user, contract, value), proof |-> "valid"]

\* what an honest client sends: its own score, encrypted for (LinkMatch, itself)
HonestTransactions ==
    { [sender |-> u, input |-> Encrypt(LinkMatchAddress, u, v)] :
        u \in Address, v \in Scores }

\* what the backend must refuse, one transaction per cause and sender: an input
\* encrypted for another user, one encrypted for another contract, and a
\* handle with a proof that does not verify (each of the highest score)
RefusedTransactions ==
    { [sender |-> p[1], input |-> Encrypt(LinkMatchAddress, p[2], MaxScore)] :
        p \in { q \in Address \X Address : q[1] # q[2] } }
    \cup { [sender |-> u, input |-> Encrypt(OtherContract, u, MaxScore)] :
        u \in Address }
    \cup { [sender |-> u,
             input |-> [handle |-> InputHandle(u, LinkMatchAddress, MaxScore),
                        proof |-> "forged"]] : u \in Address }

Transactions == HonestTransactions \cup RefusedTransactions

(***************************************************************************)
(* Encrypted Value Backend.                                                *)
(***************************************************************************)
RECURSIVE Decrypt(_)
Decrypt(h) ==
    IF h[1] = "input" THEN h[4]
    ELSE IF h[1] = "max" THEN Max(Decrypt(h[2]), Decrypt(h[3]))
    ELSE 0

\* FHE.fromExternal: the proof is checked against (this contract, msg.sender)
FHE_fromExternal(input, sender) ==
    IF /\ input.proof = "valid"
       /\ input.handle[2] = sender
       /\ input.handle[3] = LinkMatchAddress
    THEN [ok |-> TRUE, handle |-> input.handle]
    ELSE [ok |-> FALSE, handle |-> ZeroHandle]

FHE_max(a, b) == MaxHandle(a, b)

FHE_allow(grants, h, principal) == grants \cup {<<h, principal>>}

FHE_allowThis(grants, h) == FHE_allow(grants, h, LinkMatchAddress)

Allowed(grants, h) == { g[2] : g \in { x \in grants : x[1] = h } }

(***************************************************************************)
(* The LinkMatch contract.  L is the state a transaction works on:         *)
(* the contract's storage, the ACL and the event log.                      *)
(***************************************************************************)
EncryptedGameResult(score, player, timestamp) ==
    [score |-> score, player |-> player, timestamp |-> timestamp]

Ledger ==
    [players |-> players, hasSubmitted |-> hasSubmitted,
     playerResults |-> playerResults, acl |-> acl, events |-> events]

InitLedger ==
    [players |-> <<>>,
     hasSubmitted |-> [a \in Address |-> FALSE],
     playerResults |-> [a \in Address |-> EncryptedGameResult(ZeroHandle, ZeroAddress, 0)],
     acl |-> {},
     events |-> <<>>]

Ok(L) == [status |-> "ok", state |-> L]
Revert(L, reason) == [status |-> reason, state |-> L]

\* mutant: the first submission forgets hasSubmitted[msg.sender] = true
FirstSubmission_noFlag(L, sender, newScore, timestamp) ==
    [L EXCEPT !.players = Append(@, sender),
              !.playerResults[sender] = EncryptedGameResult(newScore, sender, timestamp)]

\* mutant: the first submission puts the participant at the head of players
FirstSubmission_prepend(L, sender, newScore, timestamp) ==
    [L EXCEPT !.players = <<sender>> \o @,
              !.hasSubmitted[sender] = TRUE,
              !.playerResults[sender] = EncryptedGameResult(newScore, sender, timestamp)]

\* if (!hasSubmitted[msg.sender]) { ... }
FirstSubmission(L, sender, newScore, timestamp) ==
    [L EXCEPT !.players = Append(@, sender),
              !.hasSubmitted[sender] = TRUE,
              !.playerResults[sender] = EncryptedGameResult(newScore, sender, timestamp)]

\* mutant: a later submission stores the new score, not the highest
SubsequentSubmission_keepLatest(L, sender, newScore, timestamp) ==
    [L EXCEPT !.playerResults[sender] =
                      EncryptedGameResult(newScore, sender, timestamp)]

\* mutant: a later submission keeps the stored score and drops the new one
SubsequentSubmission_keepCurrent(L, sender, newScore, timestamp) ==
    [L EXCEPT !.playerResults[sender] =
                      EncryptedGameResult(L.playerResults[sender].score, sender, timestamp)]

\* mutant: a later submission stores the highest score without granting it
SubsequentSubmission_noRegrant(L, sender, newScore, timestamp) ==
    LET currentScore == L.playerResults[sender].score
        highestScore == FHE_max(newScore, currentScore)
    IN [L EXCEPT !.playerResults[sender] =
                      EncryptedGameResult(highestScore, sender, timestamp)]

\* mutant: a later submission pushes the participant onto players again
SubsequentSubmission_pushAgain(L, sender, newScore, timestamp) ==
    LET currentScore == L.playerResults[sender].score
        highestScore == FHE_max(newScore, currentScore)
    IN [L EXCEPT !.players = Append(@, sender),
                 !.playerResults[sender] =
                      EncryptedGameResult(highestScore, sender, timestamp),
                 !.acl = FHE_allow(FHE_allowThis(@, highestScore), highestScore, sender)]

\* mutant: a later submission stamps every stored record with its timestamp
SubsequentSubmission_stampAll(L, sender, newScore, timestamp) ==
    LET currentScore == L.playerResults[sender].score
        highestScore == FHE_max(newScore, currentScore)
    IN [L EXCEPT !.playerResults =
                      [p \in DOMAIN @ |->
                          IF p = sender
                          THEN EncryptedGameResult(highestScore, sender, timestamp)
                          ELSE IF L.hasSubmitted[p]
                          THEN [@[p] EXCEPT !.timestamp = timestamp]
                          ELSE @[p]],
                 !.acl = FHE_allow(FHE_allowThis(@, highestScore), highestScore, sender)]

\* else { ... }
SubsequentSubmission(L, sender, newScore, timestamp) ==
    LET currentScore == L.playerResults[sender].score
        highestScore == FHE_max(newScore, currentScore)
    IN [L EXCEPT !.playerResults[sender] =
                      EncryptedGameResult(highestScore, sender, timestamp),
                 !.acl = FHE_allow(FHE_allowThis(@, highestScore), highestScore, sender)]

\* mutant: the external handle is used without FHE.fromExternal checking its proof
submitGameResult_skipVerification(L, sender, input, timestamp) ==
    LET newScore == input.handle
        L1 == [L EXCEPT !.acl = FHE_allow(FHE_allowThis(@, newScore), newScore, sender)]
        L2 == IF ~L1.hasSubmitted[sender]
              THEN FirstSubmission(L1, sender, newScore, timestamp)
              ELSE SubsequentSubmission(L1, sender, newScore, timestamp)
    IN Ok([L2 EXCEPT !.events = Append(@, [player |-> sender, timestamp |-> timestamp])])

\* mutant: GameResultSubmitted is emitted in the first-submission branch only
submitGameResult_emitOnFirst(L, sender, input, timestamp) ==
    LET ext == FHE_fromExternal(input, sender) IN
    IF ~ext.ok THEN Revert(L, "invalid input proof")
    ELSE
    LET newScore == ext.handle
        L1 == [L EXCEPT !.acl = FHE_allow(FHE_allowThis(@, newScore), newScore, sender)]
    IN IF ~L1.hasSubmitted[sender]
       THEN Ok([FirstSubmission(L1, sender, newScore, timestamp) EXCEPT
                  !.events = Append(@, [player |-> sender, timestamp |-> timestamp])])
       ELSE Ok(SubsequentSubmission(L1, sender, newScore, timestamp))

submitGameResult(L, sender, input, timestamp) ==
    LET ext == FHE_fromExternal(input, sender) IN
    IF ~ext.ok THEN Revert(L, "invalid input proof")
    ELSE
    LET newScore == ext.handle
        L1 == [L EXCEPT !.acl = FHE_allow(FHE_allowThis(@, newScore), newScore, sender)]
        L2 == IF ~L1.hasSubmitted[sender]
              THEN FirstSubmission(L1, sender, newScore, timestamp)
              ELSE SubsequentSubmission(L1, sender, newScore, timestamp)
    IN Ok([L2 EXCEPT !.events = Append(@, [player |-> sender, timestamp |-> timestamp])])

\* the view functions: [ok, value, error]
Return(v) == [ok |-> TRUE, value |-> v, error |-> ""]
Require(reason) == [ok |-> FALSE, value |-> <<>>, error |-> reason]

\* mutant: getPlayerResult without its require
getPlayerResult_noRequire(L, player) ==
    Return(L.playerResults[player].score)

getPlayerResult(L, player) ==
    IF ~L.hasSubmitted[player] THEN Require("Player has not submitted a result")
    ELSE Return(L.playerResults[player].score)

getPlayerCount(L) == Len(L.players)

\* mutant: the bound check lets index = players.length through
getPlayerByIndex_offByOne(L, index) ==
    IF ~(index <= Len(L.players)) THEN Require("Index out of bounds")
    ELSE Return(IF index < Len(L.players) THEN L.players[index + 1] ELSE ZeroAddress)

getPlayerByIndex(L, index) ==
    IF ~(index < Len(L.players)) THEN Require("Index out of bounds")
    ELSE Return(L.players[index + 1])

checkPlayerSubmitted(L, player) == L.hasSubmitted[player]

\* mutant: the scores are filled in from the far end of players
getAllEncryptedScores_reversed(L) ==
    LET count == Len(L.players) IN
    [playerAddresses |-> [i \in 1..count |-> L.players[i]],
     encryptedScores |->
        [i \in 1..count |-> L.playerResults[L.players[count + 1 - i]].score]]

getAllEncryptedScores(L) ==
    LET count == Len(L.players) IN
    [playerAddresses |-> [i \in 1..count |-> L.players[i]],
     encryptedScores |-> [i \in 1..count |-> L.playerResults[L.players[i]].score]]

(***************************************************************************)
(* The wallet, the deployment it points the hook at, and the hook as it    *)
(* is after its first render.                                              *)
(***************************************************************************)
SepoliaChainId == 11155111
LocalChainId == 31337
CONTRACT_ADDRESS == ""

ChainIds == {0, SepoliaChainId, LocalChainId}
Signers == {""} \cup Address

\* LinkMatchAddresses[chainIdStr]?.address
LinkMatchAddresses(chain) == IF chain = SepoliaChainId THEN LinkMatchAddress ELSE ""

getLinkMatchByChainId(chain, contractAddress) ==
    IF chain = 0 THEN [address |-> "", chainId |-> 0]
    ELSE [address |-> IF LinkMatchAddresses(chain) # ""
                      THEN LinkMatchAddresses(chain) ELSE contractAddress,
          chainId |-> chain]

\* linkMatch, and linkMatchRef.current, which the same render sets
linkMatch == getLinkMatchByChainId(chainId, CONTRACT_ADDRESS)

NoCalls ==
    [requests |-> 0, changes |-> 0, encrypt |-> 0, loadOrSign |-> 0, userDecrypt |-> 0,
     ignored |-> ""]

\* the hook after its first render: the useState and useRef initial values,
\* and the message the linkMatch memo sets
HookInit ==
    /\ playerResultHandle = <<>>
    /\ clearResult = <<>>
    /\ isRefreshing = FALSE
    /\ isDecrypting = FALSE
    /\ isSubmitting = FALSE
    /\ message = IF linkMatch.address = "" THEN "LinkMatch deployment not found" ELSE ""
    /\ submitRuns = {}
    /\ decryptRuns = {}
    /\ refreshRuns = {}
    /\ calls = NoCalls
    /\ sent = <<>>

(***************************************************************************)
(* Decryption authorizations.  FhevmDecryptionSignature.loadOrSign is not  *)
(* part of the sources at hand; it is modelled here from the type of the   *)
(* signature (fhevmTypes.ts) and from the specification of the             *)
(* authorization manager.  Time is counted in days, the unit of            *)
(* durationDays.                                                           *)
(***************************************************************************)
MaxClock == 3

\* the window a fresh signature is given
durationDays == 2

\* the lists of contract addresses a signature can be asked for
TargetSets == { {LinkMatchAddress}, {LinkMatchAddress, OtherContract} }

\* FhevmDecryptionSignatureType, with the fields that decide its validity
FhevmDecryptionSignature(user, contracts, t) ==
    [userAddress |-> user, contractAddresses |-> contracts,
     startTimestamp |-> t, durationDays |-> durationDays]

isValid_anyOwner(sig, user, contracts, t) ==
    /\ sig.contractAddresses = contracts
    /\ t < sig.startTimestamp + sig.durationDays

isValid_noExpiry(sig, user, contracts, t) ==
    /\ sig.userAddress = user
    /\ sig.contractAddresses = contracts

\* the validity predicate: the owner is the signer asking, the target set is
\* the one asked for, and the window has not run out
isValid(sig, user, contracts, t) ==
    /\ sig.userAddress = user
    /\ sig.contractAddresses = contracts
    /\ t < sig.startTimestamp + sig.durationDays

\* the signatures kept under the key (user, contracts)
Keyed(storage, user, contracts) ==
    { sig \in storage : sig.userAddress = user /\ sig.contractAddresses = contracts }

\* loadOrSign(instance, contracts, signer, storage) at time t: a kept signature
\* that is valid is returned as it is; otherwise the signer is asked to sign,
\* and either does (the fresh signature replaces the one kept under its key)
\* or declines (null is returned and the storage stays as it was)
loadOrSign(storage, user, contracts, t, accepts) ==
    LET valid == { sig \in storage : isValid(sig, user, contracts, t) }
        fresh == FhevmDecryptionSignature(user, contracts, t)
    IN  IF valid # {}
        THEN [signature |-> <<CHOOSE sig \in valid : TRUE>>, storage |-> storage,
              prompted |-> FALSE]
        ELSE IF accepts
        THEN [signature |-> <<fresh>>,
              storage |-> (storage \ Keyed(storage, user, contracts)) \cup {fresh},
              prompted |-> TRUE]
        ELSE [signature |-> <<>>, storage |-> storage, prompted |-> TRUE]

\* the record of a loadOrSign call
Loaded(user, contracts, t, r) ==
    [userAddress |-> user, contractAddresses |-> contracts, at |-> t,
     signature |-> r.signature, prompted |-> r.prompted]

NotLoaded ==
    [userAddress |-> "", contractAddresses |-> {}, at |-> 0, signature |-> <<>>,
     prompted |-> FALSE]

AuthInit ==
    /\ signatureStorage = {}
    /\ clock = 0
    /\ loaded = NotLoaded

\* useState([]) and useState(false) of the leaderboard
BoardInit ==
    /\ leaderboard = <<>>
    /\ isLoadingLeaderboard = FALSE
    /\ leaderboardRuns = {}

\* useState(false) of hasSubmitted; the effect has not run yet
NoDeps == [address |-> "", signer |-> "", provider |-> FALSE, mounted |-> FALSE]

FlagInit ==
    /\ hook_hasSubmitted = FALSE
    /\ effectDeps = NoDeps
    /\ effectRuns = {}

\* the useState initial values of LinkMatchGame
NothingCompleted == <<>>

GameInit ==
    /\ grid = <<>>
    /\ selectedCells = <<>>
    /\ matches = 0
    /\ gameState = "waiting"
    /\ timers = <<>>
    /\ completed = NothingCompleted

PageInit == FlagInit /\ GameInit

\* no wallet connected
NoEnvironment ==
    /\ chainId = 0
    /\ ethersSigner = ""
    /\ instance = FALSE

(***************************************************************************)
(* The chain.                                                              *)
(***************************************************************************)
LedgerInit ==
    /\ players = InitLedger.players
    /\ hasSubmitted = InitLedger.hasSubmitted
    /\ playerResults = InitLedger.playerResults
    /\ acl = InitLedger.acl
    /\ events = InitLedger.events
    /\ now = 1
    /\ mempool = {}
    /\ receipts = <<>>

Init == LedgerInit /\ NoEnvironment /\ HookInit /\ AuthInit /\ BoardInit /\ PageInit

SendTransaction(tx) ==
    /\ tx \notin mempool
    /\ Len(receipts) + Cardinality(mempool) < MaxCalls
    /\ mempool' = mempool \cup {tx}
    /\ UNCHANGED <<players, hasSubmitted, playerResults, acl, events, now, receipts>>
    /\ UNCHANGED clientVars

ExecuteTransaction(tx) ==
    /\ tx \in mempool
    /\ LET r == submitGameResult(Ledger, tx.sender, tx.input, now) IN
        /\ players' = r.state.players
        /\ hasSubmitted' = r.state.hasSubmitted
        /\ playerResults' = r.state.playerResults
        /\ acl' = r.state.acl
        /\ events' = r.state.events
        /\ receipts' = Append(receipts,
                [sender |-> tx.sender, input |-> tx.input, status |-> r.status])
    /\ mempool' = mempool \ {tx}
    /\ UNCHANGED now
    /\ UNCHANGED clientVars

\* a new block, with a later timestamp (a block in which the ledger accepted
\* nothing is skipped: the ledger cannot tell it from a longer wait)
MineBlock ==
    /\ now <= Len(events)
    /\ now' = now + 1
    /\ UNCHANGED <<players, hasSubmitted, playerResults, acl, events, mempool, receipts>>
    /\ UNCHANGED clientVars

Next ==
    \/ \E tx \in Transactions : SendTransaction(tx)
    \/ \E tx \in Transactions : ExecuteTransaction(tx)
    \/ MineBlock

Spec == Init /\ [][Next]_vars

(***************************************************************************)
(* What the claims read off a state.                                       *)
(***************************************************************************)
Last(s) == s[Len(s)]

IsPrefix(s, t) == Len(s) <= Len(t) /\ \A i \in 1..Len(s) : s[i] = t[i]

Range(f) == { f[i] : i \in DOMAIN f }

\* the places in the chain's history of the submissions the ledger accepted from p
AcceptedFrom(p) ==
    { i \in 1..Len(receipts) : receipts[i].sender = p /\ receipts[i].status = "ok" }

\* the plaintexts the clients encrypted for them
SubmittedScores(p) == { receipts[i].input.handle[4] : i \in AcceptedFrom(p) }

\* the senders of the accepted submissions, each once, in the order of their first
RECURSIVE FirstSubmitters(_)
FirstSubmitters(n) ==
    IF n = 0 THEN <<>>
    ELSE LET before == FirstSubmitters(n - 1)
             r == receipts[n]
         IN IF r.status = "ok" /\ r.sender \notin Range(before)
            THEN Append(before, r.sender)
            ELSE before

\* the transaction a step executes, if it executes one
ExecutedIn(before, after) == before \ after

Verifies(tx) == FHE_fromExternal(tx.input, tx.sender).ok

\* C1: in every reachable state, the handle stored for a participant with
\* accepted submissions decrypts to the maximum of the plaintexts of all of
\* them, whatever their order and whatever other participants submitted
\* between them.
C1_StoredScoreIsMaximum ==
    \A p \in Address :
        AcceptedFrom(p) # {} =>
            /\ getPlayerResult(Ledger, p).ok
            /\ Decrypt(getPlayerResult(Ledger, p).value) = MaxOfSet(SubmittedScores(p))

\* a participant submitted a lower score after a higher one, and another
\* participant's submission was accepted between the two
C1_Witness ==
    \E i, j, k \in 1..Len(receipts) :
        /\ i < k /\ k < j
        /\ receipts[i].status = "ok" /\ receipts[j].status = "ok"
        /\ receipts[k].status = "ok"
        /\ receipts[i].sender = receipts[j].sender
        /\ receipts[k].sender # receipts[i].sender
        /\ receipts[i].input.handle[4] > receipts[j].input.handle[4]

\* C2: every submitGameResult by a participant with an earlier accepted
\* submission reverts with "Player has already submitted a result", so that no
\* participant has more than one accepted submission.
C2_DuplicateSubmissionRejected ==
    \A j \in 1..Len(receipts) :
        (\E i \in 1..(j - 1) :
            receipts[i].sender = receipts[j].sender /\ receipts[i].status = "ok")
        => receipts[j].status = "Player has already submitted a result"

\* C3: a step that executes an accepted submission of a participant who had
\* not submitted raises getPlayerCount() by one and sets hasSubmitted; one of a
\* participant who had submitted leaves getPlayerCount() and players as they were.
C3_FirstSubmissionCountsOnce ==
    [][\A tx \in ExecutedIn(mempool, mempool') :
        Last(receipts').status = "ok" =>
            IF ~hasSubmitted[tx.sender]
            THEN /\ getPlayerCount(Ledger') = getPlayerCount(Ledger) + 1
                 /\ hasSubmitted'[tx.sender]
            ELSE /\ getPlayerCount(Ledger') = getPlayerCount(Ledger)
                 /\ players' = players
                 /\ hasSubmitted'[tx.sender]]_vars

\* two participants are registered and one of them was accepted twice
C3_Witness ==
    /\ getPlayerCount(Ledger) = 2
    /\ \E p \in Address : Cardinality(AcceptedFrom(p)) = 2

\* C4: getPlayerByIndex(i) is the i-th distinct sender of an accepted
\* submission, in the order of their first accepted submissions and whatever
\* the scores, and no step changes or moves an entry of players.
C4_PlayersInFirstSubmissionOrder ==
    /\ [](/\ players = FirstSubmitters(Len(receipts))
          /\ \A i \in 0..(Len(players) - 1) :
                /\ getPlayerByIndex(Ledger, i).ok
                /\ getPlayerByIndex(Ledger, i).value
                      = FirstSubmitters(Len(receipts))[i + 1])
    /\ [][IsPrefix(players, players')]_vars

\* the second participant registered with a higher score than the first, and
\* the first submitted again afterwards
C4_Witness ==
    /\ Len(players) = 2
    /\ Len(receipts) = 3
    /\ \A i \in 1..3 : receipts[i].status = "ok"
    /\ receipts[1].sender = players[1]
    /\ receipts[2].sender = players[2]
    /\ receipts[3].sender = players[1]
    /\ receipts[2].input.handle[4] > receipts[1].input.handle[4]

\* C5: for a participant without an accepted submission getPlayerResult fails
\* with "Player has not submitted a result", checkPlayerSubmitted and
\* hasSubmitted are false, and getAllEncryptedScores() does not list it.
C5_NeverSubmittedIsAbsent ==
    \A p \in Address :
        AcceptedFrom(p) = {} =>
            /\ ~getPlayerResult(Ledger, p).ok
            /\ getPlayerResult(Ledger, p).error = "Player has not submitted a result"
            /\ ~checkPlayerSubmitted(Ledger, p)
            /\ ~hasSubmitted[p]
            /\ p \notin Range(getAllEncryptedScores(Ledger).playerAddresses)

\* one participant is registered; the other is not, though it sent a
\* transaction, which the ledger refused
C5_Witness ==
    \E p \in Address :
        /\ AcceptedFrom(p) = {}
        /\ \E i \in 1..Len(receipts) : receipts[i].sender = p
        /\ \E q \in Address \ {p} : AcceptedFrom(q) # {}

\* C6: both sequences of getAllEncryptedScores() have getPlayerCount()
\* elements, and getPlayerByIndex(i) succeeds for i < getPlayerCount() and
\* fails with "Index out of bounds" for every i >= getPlayerCount().
C6_EnumerationBounds ==
    LET count == getPlayerCount(Ledger)
        all == getAllEncryptedScores(Ledger)
    IN /\ Len(all.playerAddresses) = count
       /\ Len(all.encryptedScores) = count
       /\ \A i \in 0..(MaxCalls + 1) :
            IF i < count
            THEN getPlayerByIndex(Ledger, i).ok
            ELSE /\ ~getPlayerByIndex(Ledger, i).ok
                 /\ getPlayerByIndex(Ledger, i).error = "Index out of bounds"

\* two participants are registered: index 1 is the last valid one, 2 is not
C6_Witness ==
    /\ getPlayerCount(Ledger) = 2
    /\ getPlayerByIndex(Ledger, 1).ok
    /\ ~getPlayerByIndex(Ledger, 2).ok

\* C7: the i-th ciphertext of getAllEncryptedScores() is the handle that
\* getPlayerResult returns for its i-th address, and its i-th address is
\* getPlayerByIndex(i).
C7_AllScoresMatchRecords ==
    LET all == getAllEncryptedScores(Ledger) IN
    /\ Len(all.playerAddresses) = Len(all.encryptedScores)
    /\ \A i \in 1..Len(all.playerAddresses) :
        /\ all.playerAddresses[i] = getPlayerByIndex(Ledger, i - 1).value
        /\ getPlayerResult(Ledger, all.playerAddresses[i]).ok
        /\ all.encryptedScores[i] = getPlayerResult(Ledger, all.playerAddresses[i]).value
        /\ all.encryptedScores[i] = playerResults[all.playerAddresses[i]].score

\* two participants are listed, the first with a max-combined handle and the
\* second with the handle it submitted
C7_Witness ==
    LET all == getAllEncryptedScores(Ledger) IN
    /\ Len(all.playerAddresses) = 2
    /\ all.encryptedScores[1][1] = "max"
    /\ all.encryptedScores[2][1] = "input"

\* the participant a handle belongs to: the user an input was encrypted for,
\* and for a max-combined handle the owner of what it combines
RECURSIVE HandleOwner(_)
HandleOwner(h) ==
    IF h[1] = "input" THEN h[2]
    ELSE IF h[1] = "max" THEN HandleOwner(h[2])
    ELSE ZeroAddress

\* C8: the handle stored for a participant is granted to the contract and to
\* that participant, and every handle with a grant is granted to exactly the
\* contract and the participant who submitted it.
C8_AclIsContractAndOwner ==
    /\ \A p \in Address :
        hasSubmitted[p] =>
            {LinkMatchAddress, p} \subseteq Allowed(acl, playerResults[p].score)
    /\ \A g \in acl :
        /\ Allowed(acl, g[1]) = {LinkMatchAddress, HandleOwner(g[1])}
        /\ AcceptedFrom(HandleOwner(g[1])) # {}

\* both participants hold a record, one of them a max-combined handle with
\* its own two grants
C8_Witness ==
    /\ \A p \in Address : hasSubmitted[p]
    /\ \E p \in Address :
        /\ playerResults[p].score[1] = "max"
        /\ Allowed(acl, playerResults[p].score) = {LinkMatchAddress, p}

\* two submissions of one participant that wait in the mempool together,
\* both of which the backend accepts
ConcurrentSubmissions ==
    { pair \in mempool \X mempool :
        /\ pair[1] # pair[2]
        /\ pair[1].sender = pair[2].sender
        /\ Verifies(pair[1]) /\ Verifies(pair[2]) }

\* the ledger after t and then u, each executed as one step
Serial(L, t, u) ==
    submitGameResult(submitGameResult(L, t.sender, t.input, now).state,
                     u.sender, u.input, now)

PriorBest(p) == IF hasSubmitted[p] THEN {Decrypt(playerResults[p].score)} ELSE {}

\* C9: the chain executes each submitGameResult as one step, so two
\* submissions of one participant that wait in the mempool together are
\* applied in one of the two serial orders; in either order both are accepted
\* and the record decrypts to the maximum of the earlier best and both
\* submitted values, and the participant is registered once.
C9_ConcurrentSubmissionsLoseNothing ==
    \A pair \in ConcurrentSubmissions :
        LET t == pair[1]
            u == pair[2]
            r == Serial(Ledger, t, u)
        IN /\ r.status = "ok"
           /\ Decrypt(r.state.playerResults[t.sender].score)
                = MaxOfSet(PriorBest(t.sender)
                            \cup {t.input.handle[4], u.input.handle[4]})
           /\ r.state.players = Serial(Ledger, u, t).state.players
           /\ Cardinality({ i \in 1..Len(r.state.players) :
                              r.state.players[i] = t.sender }) = 1

\* a participant with a stored score has two submissions waiting together,
\* one below and one above what is stored
C9_Witness ==
    \E pair \in ConcurrentSubmissions :
        /\ hasSubmitted[pair[1].sender]
        /\ pair[1].input.handle[4] < Decrypt(playerResults[pair[1].sender].score)
        /\ pair[2].input.handle[4] > Decrypt(playerResults[pair[1].sender].score)

\* what an accepted submission of tx leaves behind
FullyApplied(tx) ==
    LET p == tx.sender IN
    /\ hasSubmitted'[p]
    /\ p \in Range(players')
    /\ playerResults'[p].player = p
    /\ playerResults'[p].timestamp = now
    /\ Decrypt(playerResults'[p].score) >= tx.input.handle[4]
    /\ {LinkMatchAddress, p} \subseteq Allowed(acl', playerResults'[p].score)
    /\ events' = Append(events, [player |-> p, timestamp |-> now])

\* C10: a step that executes a submitGameResult whose proof the backend
\* rejects fails and leaves players, hasSubmitted, playerResults, the ACL and
\* the events as they were; one whose proof it accepts is applied in full.
C10_SubmitIsAllOrNothing ==
    [][\A tx \in ExecutedIn(mempool, mempool') :
        IF ~Verifies(tx)
        THEN /\ Ledger' = Ledger
             /\ Last(receipts').status # "ok"
        ELSE /\ Last(receipts').status = "ok"
             /\ FullyApplied(tx)]_vars

\* the ledger refused a proof after it had accepted a submission
C10_Witness ==
    \E i, j \in 1..Len(receipts) :
        /\ i < j
        /\ receipts[i].status = "ok"
        /\ receipts[j].status = "invalid input proof"
        /\ Len(events) = Cardinality({ k \in 1..Len(receipts) : receipts[k].status = "ok" })

\* C11: a step that executes an accepted submitGameResult, first or later,
\* appends exactly one GameResultSubmitted(sender, block.timestamp) to the
\* log; every other step (a reverted call, a transaction being sent, a new
\* block) leaves the log as it was.
C11_OneEventPerAcceptedSubmission ==
    [][IF \E tx \in ExecutedIn(mempool, mempool') : Last(receipts').status = "ok"
       THEN \A tx \in ExecutedIn(mempool, mempool') :
                events' = Append(events, [player |-> tx.sender, timestamp |-> now])
       ELSE events' = events]_vars

\* a participant was accepted twice, in two blocks, with a refused call of
\* its own between the two: the log holds its two notifications
C11_Witness ==
    /\ Len(receipts) = 3
    /\ receipts[1].status = "ok" /\ receipts[2].status # "ok" /\ receipts[3].status = "ok"
    /\ receipts[1].sender = receipts[3].sender
    /\ receipts[2].sender = receipts[1].sender
    /\ Len(events) = 2
    /\ events[1].player = events[2].player
    /\ events[1].timestamp < events[2].timestamp

(***************************************************************************)
(* The useLinkMatch hook.                                                  *)
(***************************************************************************)
\* what the user does over a behaviour: the requests that start a run, and the
\* changes of the wallet's chain, signer or FHE instance
MaxStimuli == 3

\* what the page passes to submitGameResult: the gameResult of the game the
\* player finished, whose score handleGameComplete sets to matches / timeSeconds
GameResults == { [matches |-> 3, timeSeconds |-> 2] }

\* Math.floor(result.score * 1000)
ScoreInt(result) == (result.matches * 1000) \div result.timeSeconds

\* a read-only provider is there whenever a chain is
ethersReadonlyProvider == chainId # 0

sameChain(c) == c = chainId
sameSigner(signer) == signer = ethersSigner

\* const isStale = () => ... of submitGameResult and of decryptPlayerResult
isStale(run) ==
    \/ run.address # linkMatch.address
    \/ ~sameChain(run.chainId)
    \/ ~sameSigner(run.signer)

\* calls.ignored names the function of the hook whose call was the hook's
\* latest step, when that call returned at one of its guards
Ignored(fn) == [calls EXCEPT !.ignored = fn]
Acted == [calls EXCEPT !.ignored = ""]
Bump(field) == [calls EXCEPT ![field] = @ + 1, !.ignored = ""]

\* the run a request starts is told from the others by the request's number
NextId == calls.requests + 1

Stimuli == calls.requests + calls.changes

(***************************************************************************)
(* refreshPlayerResult                                                     *)
(***************************************************************************)
\* the call itself, as the page and submitGameResult make it: what it does to
\* playerResultHandle, isRefreshingRef and the runs in flight
refreshPlayerResult(id) ==
    IF isRefreshing
    THEN UNCHANGED <<playerResultHandle, isRefreshing, refreshRuns>>
    ELSE IF \/ linkMatch.chainId = 0
            \/ linkMatch.address = ""
            \/ ~ethersReadonlyProvider
            \/ ethersSigner = ""
    THEN /\ playerResultHandle' = <<>>
         /\ UNCHANGED <<isRefreshing, refreshRuns>>
    ELSE /\ isRefreshing' = TRUE
         /\ refreshRuns' = refreshRuns \cup
                {[id |-> id, chainId |-> linkMatch.chainId,
                  address |-> linkMatch.address, player |-> ethersSigner,
                  stage |-> "getPlayerResult", result |-> Require("")]}
         /\ UNCHANGED playerResultHandle

RefreshRequest ==
    /\ refreshPlayerResult(NextId)
    /\ refreshRuns' # refreshRuns => Stimuli < MaxStimuli
    /\ calls' = IF refreshRuns' # refreshRuns THEN Bump("requests")
                ELSE Ignored("refreshPlayerResult")
    /\ UNCHANGED <<authVars, pageVars, boardVars,
                   ledgerVars, envVars, clearResult, isDecrypting, isSubmitting, message,
                   submitRuns, decryptRuns, sent>>

\* the node evaluates getPlayerResult(address) on the ledger as it is now
RefreshRead(run) ==
    /\ run \in refreshRuns
    /\ run.stage = "getPlayerResult"
    /\ refreshRuns' = (refreshRuns \ {run}) \cup
            {[run EXCEPT !.stage = "responded",
                         !.result = getPlayerResult(Ledger, run.player)]}
    /\ calls' = Acted
    /\ UNCHANGED <<authVars, pageVars, boardVars,
                   ledgerVars, envVars, hookVars, submitRuns, decryptRuns, sent>>

\* .then((result) => ...) and, for a revert, .catch
RefreshDone(run) ==
    /\ run \in refreshRuns
    /\ run.stage = "responded"
    /\ IF run.result.ok
       THEN IF sameChain(run.chainId) /\ run.address = linkMatch.address
            THEN playerResultHandle' = run.result.value
            ELSE UNCHANGED playerResultHandle
       ELSE playerResultHandle' = <<>>
    /\ isRefreshing' = FALSE
    /\ refreshRuns' = refreshRuns \ {run}
    /\ calls' = Acted
    /\ UNCHANGED <<authVars, pageVars, boardVars,
                   ledgerVars, envVars, clearResult, isDecrypting, isSubmitting, message,
                   submitRuns, decryptRuns, sent>>

RefreshRejected_flagKept(run) ==
    /\ run \in refreshRuns
    /\ run.stage = "getPlayerResult"
    /\ message' = "LinkMatch.getPlayerResult() call failed!"
    /\ refreshRuns' = refreshRuns \ {run}
    /\ calls' = Acted
    /\ UNCHANGED <<authVars, pageVars, boardVars,
                   ledgerVars, envVars, playerResultHandle, clearResult,
                   isRefreshing, isDecrypting, isSubmitting, submitRuns, decryptRuns, sent>>

\* the call is rejected for another reason than a revert
RefreshRejected(run) ==
    /\ run \in refreshRuns
    /\ run.stage = "getPlayerResult"
    /\ message' = "LinkMatch.getPlayerResult() call failed!"
    /\ isRefreshing' = FALSE
    /\ refreshRuns' = refreshRuns \ {run}
    /\ calls' = Acted
    /\ UNCHANGED <<authVars, pageVars, boardVars,
                   ledgerVars, envVars, playerResultHandle, clearResult, isDecrypting,
                   isSubmitting, submitRuns, decryptRuns, sent>>

(***************************************************************************)
(* submitGameResult                                                        *)
(***************************************************************************)
\* instance.createEncryptedInput(address, signer.address).add32(scoreInt)
\* .encrypt(): every encryption makes a ciphertext of its own
hook_encrypt(run) ==
    [Encrypt(run.address, run.signer, run.scoreInt) EXCEPT !.handle = @ \o <<run.id>>]

\* the transaction a run sends
RunTransaction(run) ==
    [sender |-> run.signer, input |-> hook_encrypt(run)]

\* the place in the chain's history of the receipt of the run's transaction
ReceiptsOf(run) ==
    { i \in (run.sentAt + 1)..Len(receipts) :
        /\ receipts[i].sender = RunTransaction(run).sender
        /\ receipts[i].input = RunTransaction(run).input }

hook_submitGameResult_noSignerGuard(result) ==
    /\ IF isRefreshing \/ isSubmitting
       THEN /\ calls' = Ignored("submitGameResult")
            /\ UNCHANGED <<isSubmitting, message, submitRuns>>
       ELSE IF linkMatch.address = "" \/ ~instance
       THEN /\ calls' = Ignored("submitGameResult")
            /\ UNCHANGED <<isSubmitting, message, submitRuns>>
       ELSE /\ Stimuli < MaxStimuli
            /\ isSubmitting' = TRUE
            /\ message' = "Start submitting game result..."
            /\ submitRuns' = submitRuns \cup
                    {[id |-> NextId, chainId |-> chainId, address |-> linkMatch.address,
                      signer |-> ethersSigner, scoreInt |-> ScoreInt(result),
                      stage |-> "encrypt", sentAt |-> 0]}
            /\ calls' = [calls EXCEPT !.requests = @ + 1, !.encrypt = @ + 1, !.ignored = ""]
    /\ UNCHANGED <<authVars, pageVars, boardVars,
                   ledgerVars, envVars, playerResultHandle, clearResult, isRefreshing,
                   isDecrypting, decryptRuns, refreshRuns, sent>>

hook_submitGameResult_noPendingGuard(result) ==
    /\ IF isRefreshing
       THEN /\ calls' = Ignored("submitGameResult")
            /\ UNCHANGED <<isSubmitting, message, submitRuns>>
       ELSE IF linkMatch.address = "" \/ ~instance \/ ethersSigner = ""
       THEN /\ calls' = Ignored("submitGameResult")
            /\ UNCHANGED <<isSubmitting, message, submitRuns>>
       ELSE /\ Stimuli < MaxStimuli
            /\ isSubmitting' = TRUE
            /\ message' = "Start submitting game result..."
            /\ submitRuns' = submitRuns \cup
                    {[id |-> NextId, chainId |-> chainId, address |-> linkMatch.address,
                      signer |-> ethersSigner, scoreInt |-> ScoreInt(result),
                      stage |-> "encrypt", sentAt |-> 0]}
            /\ calls' = [calls EXCEPT !.requests = @ + 1, !.encrypt = @ + 1, !.ignored = ""]
    /\ UNCHANGED <<authVars, pageVars, boardVars,
                   ledgerVars, envVars, playerResultHandle, clearResult, isRefreshing,
                   isDecrypting, decryptRuns, refreshRuns, sent>>

\* submitGameResult(result), up to run(): the guards, the captures, the flag
hook_submitGameResult_noRefreshGuard(result) ==
    /\ IF isSubmitting
       THEN /\ calls' = Ignored("submitGameResult")
            /\ UNCHANGED <<isSubmitting, message, submitRuns>>
       ELSE IF linkMatch.address = "" \/ ~instance \/ ethersSigner = ""
       THEN /\ calls' = Ignored("submitGameResult")
            /\ UNCHANGED <<isSubmitting, message, submitRuns>>
       ELSE /\ Stimuli < MaxStimuli
            /\ isSubmitting' = TRUE
            /\ message' = "Start submitting game result..."
            /\ submitRuns' = submitRuns \cup
                    {[id |-> NextId, chainId |-> chainId, address |-> linkMatch.address,
                      signer |-> ethersSigner, scoreInt |-> ScoreInt(result),
                      stage |-> "encrypt", sentAt |-> 0]}
            /\ calls' = [calls EXCEPT !.requests = @ + 1, !.encrypt = @ + 1, !.ignored = ""]
    /\ UNCHANGED <<authVars, pageVars, boardVars,
                   ledgerVars, envVars, playerResultHandle, clearResult, isRefreshing,
                   isDecrypting, decryptRuns, refreshRuns, sent>>

hook_submitGameResult(result) ==
    /\ IF isRefreshing \/ isSubmitting
       THEN /\ calls' = Ignored("submitGameResult")
            /\ UNCHANGED <<isSubmitting, message, submitRuns>>
       ELSE IF linkMatch.address = "" \/ ~instance \/ ethersSigner = ""
       THEN /\ calls' = Ignored("submitGameResult")
            /\ UNCHANGED <<isSubmitting, message, submitRuns>>
       ELSE /\ Stimuli < MaxStimuli
            /\ isSubmitting' = TRUE
            /\ message' = "Start submitting game result..."
            /\ submitRuns' = submitRuns \cup
                    {[id |-> NextId, chainId |-> chainId, address |-> linkMatch.address,
                      signer |-> ethersSigner, scoreInt |-> ScoreInt(result),
                      stage |-> "encrypt", sentAt |-> 0]}
            /\ calls' = [calls EXCEPT !.requests = @ + 1, !.encrypt = @ + 1, !.ignored = ""]
    /\ UNCHANGED <<authVars, pageVars, boardVars,
                   ledgerVars, envVars, playerResultHandle, clearResult, isRefreshing,
                   isDecrypting, decryptRuns, refreshRuns, sent>>

\* the run that sent the transaction has ended, with this outcome
Settled(run, outcome) ==
    [i \in DOMAIN sent |->
        IF sent[i].id = run.id THEN [sent[i] EXCEPT !.outcome = outcome] ELSE sent[i]]

SubmitEncrypted_noStaleCheck(run) ==
    /\ run \in submitRuns
    /\ run.stage = "encrypt"
    /\ message' = "Wait for tx"
    /\ mempool' = mempool \cup {RunTransaction(run)}
    /\ sent' = Append(sent, [id |-> run.id, tx |-> RunTransaction(run), outcome |-> ""])
    /\ submitRuns' = (submitRuns \ {run}) \cup
            {[run EXCEPT !.stage = "wait", !.sentAt = Len(receipts)]}
    /\ calls' = Acted
    /\ UNCHANGED <<authVars, pageVars, boardVars,
                   players, hasSubmitted, playerResults, acl, events, now, receipts,
                   envVars, playerResultHandle, clearResult, isRefreshing, isDecrypting,
                   isSubmitting, decryptRuns, refreshRuns>>

\* scoreInput.encrypt() resolves: the stale check, then the transaction is sent
SubmitEncrypted(run) ==
    /\ run \in submitRuns
    /\ run.stage = "encrypt"
    /\ IF isStale(run)
       THEN /\ message' = "Ignore submit"
            /\ isSubmitting' = FALSE
            /\ submitRuns' = submitRuns \ {run}
            /\ UNCHANGED <<mempool, sent>>
       ELSE /\ message' = "Wait for tx"
            /\ mempool' = mempool \cup {RunTransaction(run)}
            /\ sent' = Append(sent, [id |-> run.id, tx |-> RunTransaction(run), outcome |-> ""])
            /\ submitRuns' = (submitRuns \ {run}) \cup
                    {[run EXCEPT !.stage = "wait", !.sentAt = Len(receipts)]}
            /\ UNCHANGED isSubmitting
    /\ calls' = Acted
    /\ UNCHANGED <<authVars, pageVars, boardVars,
                   players, hasSubmitted, playerResults, acl, events, now, receipts,
                   envVars, playerResultHandle, clearResult, isRefreshing, isDecrypting,
                   decryptRuns, refreshRuns>>

\* scoreInput.encrypt() throws, or the wallet or the node refuses the
\* transaction: catch, then finally
SubmitFailed_flagKept(run) ==
    /\ run \in submitRuns
    /\ run.stage = "encrypt"
    /\ message' = "Submit Failed!"
    /\ submitRuns' = submitRuns \ {run}
    /\ calls' = Acted
    /\ UNCHANGED <<authVars, pageVars, boardVars,
                   ledgerVars, envVars, playerResultHandle, clearResult, isRefreshing,
                   isDecrypting, isSubmitting, decryptRuns, refreshRuns, sent>>

\* createEncryptedInput or encrypt() throws: the catch block, and the finally
SubmitFailed(run) ==
    /\ run \in submitRuns
    /\ run.stage = "encrypt"
    /\ message' = "Submit Failed!"
    /\ isSubmitting' = FALSE
    /\ submitRuns' = submitRuns \ {run}
    /\ calls' = Acted
    /\ UNCHANGED <<authVars, pageVars, boardVars,
                   ledgerVars, envVars, playerResultHandle, clearResult, isRefreshing,
                   isDecrypting, decryptRuns, refreshRuns, sent>>

\* tx.wait() resolves with the receipt of the executed transaction, or throws
\* because it reverted
SubmitMined(run) ==
    /\ run \in submitRuns
    /\ run.stage = "wait"
    /\ ReceiptsOf(run) # {}
    /\ LET receipt == receipts[CHOOSE i \in ReceiptsOf(run) :
                                  \A j \in ReceiptsOf(run) : i <= j]
       IN IF receipt.status # "ok"
          THEN /\ message' = "Submit Failed!"
               /\ sent' = Settled(run, "failed")
               /\ UNCHANGED <<playerResultHandle, isRefreshing, refreshRuns>>
          ELSE IF isStale(run)
          THEN /\ message' = "Ignore submit"
               /\ sent' = Settled(run, "ignored")
               /\ UNCHANGED <<playerResultHandle, isRefreshing, refreshRuns>>
          ELSE /\ message' = "Submit completed"
               /\ sent' = Settled(run, "completed")
               /\ refreshPlayerResult(run.id)
    /\ isSubmitting' = FALSE
    /\ submitRuns' = submitRuns \ {run}
    /\ calls' = Acted
    /\ UNCHANGED <<authVars, pageVars, boardVars,
                   ledgerVars, envVars, clearResult, isDecrypting, decryptRuns>>

SubmitWaitRejected_retry(run) ==
    /\ run \in submitRuns
    /\ run.stage = "wait"
    /\ message' = "Wait for tx"
    /\ mempool' = mempool \cup {RunTransaction(run)}
    /\ sent' = Append(sent, [id |-> run.id, tx |-> RunTransaction(run), outcome |-> ""])
    /\ calls' = Acted
    /\ UNCHANGED <<authVars, pageVars, boardVars,
                   players, hasSubmitted, playerResults, acl, events, now, receipts,
                   envVars, playerResultHandle, clearResult, isRefreshing, isDecrypting,
                   isSubmitting, runVars>>

\* tx.wait() throws though the transaction did not revert (the connection to
\* the node is lost, the transaction is replaced): the transaction stays sent
SubmitWaitRejected(run) ==
    /\ run \in submitRuns
    /\ run.stage = "wait"
    /\ message' = "Submit Failed!"
    /\ sent' = Settled(run, "failed")
    /\ isSubmitting' = FALSE
    /\ submitRuns' = submitRuns \ {run}
    /\ calls' = Acted
    /\ UNCHANGED <<authVars, pageVars, boardVars,
                   ledgerVars, envVars, playerResultHandle, clearResult, isRefreshing,
                   isDecrypting, decryptRuns, refreshRuns>>

(***************************************************************************)
(* decryptPlayerResult                                                     *)
(***************************************************************************)
\* a playerResultHandle whose score is the empty string
EmptyScore == <<"">>

hook_decryptPlayerResult_noPendingGuard ==
    /\ IF isRefreshing
       THEN /\ calls' = Ignored("decryptPlayerResult")
            /\ UNCHANGED <<clearResult, isDecrypting, message, decryptRuns>>
       ELSE IF \/ linkMatch.address = ""
               \/ ~instance
               \/ ethersSigner = ""
               \/ playerResultHandle = <<>>
       THEN /\ calls' = Ignored("decryptPlayerResult")
            /\ UNCHANGED <<clearResult, isDecrypting, message, decryptRuns>>
       ELSE IF clearResult # <<>> /\ playerResultHandle = clearResult[1]
       THEN /\ calls' = Ignored("decryptPlayerResult")
            /\ UNCHANGED <<clearResult, isDecrypting, message, decryptRuns>>
       ELSE IF playerResultHandle = EmptyScore
       THEN /\ clearResult' = <<>>
            /\ calls' = Ignored("decryptPlayerResult")
            /\ UNCHANGED <<isDecrypting, message, decryptRuns>>
       ELSE /\ Stimuli < MaxStimuli
            /\ isDecrypting' = TRUE
            /\ message' = "Start decrypt"
            /\ decryptRuns' = decryptRuns \cup
                    {[id |-> NextId, chainId |-> chainId, address |-> linkMatch.address,
                      signer |-> ethersSigner, handle |-> playerResultHandle,
                      stage |-> "loadOrSign"]}
            /\ calls' = [calls EXCEPT !.requests = @ + 1, !.loadOrSign = @ + 1, !.ignored = ""]
            /\ UNCHANGED clearResult
    /\ UNCHANGED <<authVars, pageVars, boardVars,
                   ledgerVars, envVars, playerResultHandle, isRefreshing, isSubmitting,
                   submitRuns, refreshRuns, sent>>

hook_decryptPlayerResult_noHandleGuard ==
    /\ IF isRefreshing \/ isDecrypting
       THEN /\ calls' = Ignored("decryptPlayerResult")
            /\ UNCHANGED <<clearResult, isDecrypting, message, decryptRuns>>
       ELSE IF \/ linkMatch.address = ""
               \/ ~instance
               \/ ethersSigner = ""
       THEN /\ calls' = Ignored("decryptPlayerResult")
            /\ UNCHANGED <<clearResult, isDecrypting, message, decryptRuns>>
       ELSE IF clearResult # <<>> /\ playerResultHandle = clearResult[1]
       THEN /\ calls' = Ignored("decryptPlayerResult")
            /\ UNCHANGED <<clearResult, isDecrypting, message, decryptRuns>>
       ELSE IF playerResultHandle = EmptyScore
       THEN /\ clearResult' = <<>>
            /\ calls' = Ignored("decryptPlayerResult")
            /\ UNCHANGED <<isDecrypting, message, decryptRuns>>
       ELSE /\ Stimuli < MaxStimuli
            /\ isDecrypting' = TRUE
            /\ message' = "Start decrypt"
            /\ decryptRuns' = decryptRuns \cup
                    {[id |-> NextId, chainId |-> chainId, address |-> linkMatch.address,
                      signer |-> ethersSigner, handle |-> playerResultHandle,
                      stage |-> "loadOrSign"]}
            /\ calls' = [calls EXCEPT !.requests = @ + 1, !.loadOrSign = @ + 1, !.ignored = ""]
            /\ UNCHANGED clearResult
    /\ UNCHANGED <<authVars, pageVars, boardVars,
                   ledgerVars, envVars, playerResultHandle, isRefreshing, isSubmitting,
                   submitRuns, refreshRuns, sent>>

hook_decryptPlayerResult_noCacheCheck ==
    /\ IF isRefreshing \/ isDecrypting
       THEN /\ calls' = Ignored("decryptPlayerResult")
            /\ UNCHANGED <<clearResult, isDecrypting, message, decryptRuns>>
       ELSE IF \/ linkMatch.address = ""
               \/ ~instance
               \/ ethersSigner = ""
               \/ playerResultHandle = <<>>
       THEN /\ calls' = Ignored("decryptPlayerResult")
            /\ UNCHANGED <<clearResult, isDecrypting, message, decryptRuns>>
       ELSE IF FALSE
       THEN /\ calls' = Ignored("decryptPlayerResult")
            /\ UNCHANGED <<clearResult, isDecrypting, message, decryptRuns>>
       ELSE IF playerResultHandle = EmptyScore
       THEN /\ clearResult' = <<>>
            /\ calls' = Ignored("decryptPlayerResult")
            /\ UNCHANGED <<isDecrypting, message, decryptRuns>>
       ELSE /\ Stimuli < MaxStimuli
            /\ isDecrypting' = TRUE
            /\ message' = "Start decrypt"
            /\ decryptRuns' = decryptRuns \cup
                    {[id |-> NextId, chainId |-> chainId, address |-> linkMatch.address,
                      signer |-> ethersSigner, handle |-> playerResultHandle,
                      stage |-> "loadOrSign"]}
            /\ calls' = [calls EXCEPT !.requests = @ + 1, !.loadOrSign = @ + 1, !.ignored = ""]
            /\ UNCHANGED clearResult
    /\ UNCHANGED <<authVars, pageVars, boardVars,
                   ledgerVars, envVars, playerResultHandle, isRefreshing, isSubmitting,
                   submitRuns, refreshRuns, sent>>

\* decryptPlayerResult(), up to the call of loadOrSign in run()
hook_decryptPlayerResult_flagNotSet ==
    /\ IF isRefreshing \/ isDecrypting
       THEN /\ calls' = Ignored("decryptPlayerResult")
            /\ UNCHANGED <<clearResult, isDecrypting, message, decryptRuns>>
       ELSE IF \/ linkMatch.address = ""
               \/ ~instance
               \/ ethersSigner = ""
               \/ playerResultHandle = <<>>
       THEN /\ calls' = Ignored("decryptPlayerResult")
            /\ UNCHANGED <<clearResult, isDecrypting, message, decryptRuns>>
       ELSE IF clearResult # <<>> /\ playerResultHandle = clearResult[1]
       THEN /\ calls' = Ignored("decryptPlayerResult")
            /\ UNCHANGED <<clearResult, isDecrypting, message, decryptRuns>>
       ELSE IF playerResultHandle = EmptyScore
       THEN /\ clearResult' = <<>>
            /\ calls' = Ignored("decryptPlayerResult")
            /\ UNCHANGED <<isDecrypting, message, decryptRuns>>
       ELSE /\ Stimuli < MaxStimuli
            /\ UNCHANGED isDecrypting
            /\ message' = "Start decrypt"
            /\ decryptRuns' = decryptRuns \cup
                    {[id |-> NextId, chainId |-> chainId, address |-> linkMatch.address,
                      signer |-> ethersSigner, handle |-> playerResultHandle,
                      stage |-> "loadOrSign"]}
            /\ calls' = [calls EXCEPT !.requests = @ + 1, !.loadOrSign = @ + 1, !.ignored = ""]
            /\ UNCHANGED clearResult
    /\ UNCHANGED <<authVars, pageVars, boardVars,
                   ledgerVars, envVars, playerResultHandle, isRefreshing, isSubmitting,
                   submitRuns, refreshRuns, sent>>

hook_decryptPlayerResult ==
    /\ IF isRefreshing \/ isDecrypting
       THEN /\ calls' = Ignored("decryptPlayerResult")
            /\ UNCHANGED <<clearResult, isDecrypting, message, decryptRuns>>
       ELSE IF \/ linkMatch.address = ""
               \/ ~instance
               \/ ethersSigner = ""
               \/ playerResultHandle = <<>>
       THEN /\ calls' = Ignored("decryptPlayerResult")
            /\ UNCHANGED <<clearResult, isDecrypting, message, decryptRuns>>
       ELSE IF clearResult # <<>> /\ playerResultHandle = clearResult[1]
       THEN /\ calls' = Ignored("decryptPlayerResult")
            /\ UNCHANGED <<clearResult, isDecrypting, message, decryptRuns>>
       ELSE IF playerResultHandle = EmptyScore
       THEN /\ clearResult' = <<>>
            /\ calls' = Ignored("decryptPlayerResult")
            /\ UNCHANGED <<isDecrypting, message, decryptRuns>>
       ELSE /\ Stimuli < MaxStimuli
            /\ isDecrypting' = TRUE
            /\ message' = "Start decrypt"
            /\ decryptRuns' = decryptRuns \cup
                    {[id |-> NextId, chainId |-> chainId, address |-> linkMatch.address,
                      signer |-> ethersSigner, handle |-> playerResultHandle,
                      stage |-> "loadOrSign"]}
            /\ calls' = [calls EXCEPT !.requests = @ + 1, !.loadOrSign = @ + 1, !.ignored = ""]
            /\ UNCHANGED clearResult
    /\ UNCHANGED <<authVars, pageVars, boardVars,
                   ledgerVars, envVars, playerResultHandle, isRefreshing, isSubmitting,
                   submitRuns, refreshRuns, sent>>

\* loadOrSign resolves with a signature: the stale check, then userDecrypt is
\* called
DecryptSigned(run) ==
    /\ run \in decryptRuns
    /\ run.stage = "loadOrSign"
    /\ LET r == loadOrSign(signatureStorage, run.signer, {run.address}, clock, TRUE)
       IN  /\ signatureStorage' = r.storage
           /\ loaded' = Loaded(run.signer, {run.address}, clock, r)
    /\ IF isStale(run)
       THEN /\ message' = "Ignore FHEVM decryption"
            /\ isDecrypting' = FALSE
            /\ decryptRuns' = decryptRuns \ {run}
            /\ calls' = Acted
       ELSE /\ message' = "Call FHEVM userDecrypt..."
            /\ decryptRuns' = (decryptRuns \ {run}) \cup {[run EXCEPT !.stage = "userDecrypt"]}
            /\ calls' = Bump("userDecrypt")
            /\ UNCHANGED isDecrypting
    /\ UNCHANGED <<clock, pageVars, boardVars,
                   ledgerVars, envVars, playerResultHandle, clearResult, isRefreshing,
                   isSubmitting, submitRuns, refreshRuns, sent>>

DecryptUnsigned_goesOn(run) ==
    /\ run \in decryptRuns
    /\ run.stage = "loadOrSign"
    /\ LET r == loadOrSign(signatureStorage, run.signer, {run.address}, clock, FALSE)
       IN  /\ r.signature = <<>>
           /\ signatureStorage' = r.storage
           /\ loaded' = Loaded(run.signer, {run.address}, clock, r)
    /\ message' = "Call FHEVM userDecrypt..."
    /\ decryptRuns' = (decryptRuns \ {run}) \cup {[run EXCEPT !.stage = "userDecrypt"]}
    /\ calls' = Bump("userDecrypt")
    /\ UNCHANGED <<clock, pageVars, boardVars,
                   ledgerVars, envVars, playerResultHandle, clearResult, isRefreshing,
                   isDecrypting, isSubmitting, submitRuns, refreshRuns, sent>>

\* loadOrSign resolves with null: no signature kept was valid and the signer
\* declined to sign
DecryptUnsigned(run) ==
    /\ run \in decryptRuns
    /\ run.stage = "loadOrSign"
    /\ LET r == loadOrSign(signatureStorage, run.signer, {run.address}, clock, FALSE)
       IN  /\ r.signature = <<>>
           /\ signatureStorage' = r.storage
           /\ loaded' = Loaded(run.signer, {run.address}, clock, r)
    /\ message' = "Unable to build FHEVM decryption signature"
    /\ isDecrypting' = FALSE
    /\ decryptRuns' = decryptRuns \ {run}
    /\ calls' = Acted
    /\ UNCHANGED <<clock, pageVars, boardVars,
                   ledgerVars, envVars, playerResultHandle, clearResult, isRefreshing,
                   isSubmitting, submitRuns, refreshRuns, sent>>

DecryptDone_noStaleCheck(run) ==
    /\ run \in decryptRuns
    /\ run.stage = "userDecrypt"
    /\ run.signer \in Allowed(acl, run.handle)
    /\ message' = "FHEVM userDecrypt completed!"
    /\ clearResult' = <<run.handle, Decrypt(run.handle)>>
    /\ isDecrypting' = FALSE
    /\ decryptRuns' = decryptRuns \ {run}
    /\ calls' = Acted
    /\ UNCHANGED <<authVars, pageVars, boardVars,
                   ledgerVars, envVars, playerResultHandle, isRefreshing, isSubmitting,
                   submitRuns, refreshRuns, sent>>

\* userDecrypt resolves with the plaintext, which the backend gives to a
\* principal the handle's access list names
DecryptDone(run) ==
    /\ run \in decryptRuns
    /\ run.stage = "userDecrypt"
    /\ run.signer \in Allowed(acl, run.handle)
    /\ IF isStale(run)
       THEN /\ message' = "Ignore FHEVM decryption"
            /\ UNCHANGED clearResult
       ELSE /\ message' = "FHEVM userDecrypt completed!"
            /\ clearResult' = <<run.handle, Decrypt(run.handle)>>
    /\ isDecrypting' = FALSE
    /\ decryptRuns' = decryptRuns \ {run}
    /\ calls' = Acted
    /\ UNCHANGED <<authVars, pageVars, boardVars,
                   ledgerVars, envVars, playerResultHandle, isRefreshing, isSubmitting,
                   submitRuns, refreshRuns, sent>>

\* userDecrypt throws: there is no catch, only the finally
DecryptFailed(run) ==
    /\ run \in decryptRuns
    /\ run.stage = "userDecrypt"
    /\ isDecrypting' = FALSE
    /\ decryptRuns' = decryptRuns \ {run}
    /\ calls' = Acted
    /\ UNCHANGED <<authVars, pageVars, boardVars,
                   ledgerVars, envVars, playerResultHandle, clearResult, isRefreshing,
                   isSubmitting, message, submitRuns, refreshRuns, sent>>

(***************************************************************************)
(* The wallet: the chain, the signer and the FHE instance change.          *)
(***************************************************************************)
ChainChanged(c) ==
    /\ Stimuli < MaxStimuli
    /\ c # chainId
    /\ chainId' = c
    /\ message' = IF getLinkMatchByChainId(c, CONTRACT_ADDRESS).address = ""
                  THEN "LinkMatch deployment not found" ELSE message
    /\ calls' = Bump("changes")
    /\ UNCHANGED <<authVars, pageVars, boardVars,
                   ledgerVars, ethersSigner, instance, playerResultHandle, clearResult,
                   isRefreshing, isDecrypting, isSubmitting, runVars, sent>>

SignerChanged(signer) ==
    /\ Stimuli < MaxStimuli
    /\ signer # ethersSigner
    /\ ethersSigner' = signer
    /\ calls' = Bump("changes")
    /\ UNCHANGED <<authVars, pageVars, boardVars,
                   ledgerVars, chainId, instance, hookVars, runVars, sent>>

InstanceChanged ==
    /\ Stimuli < MaxStimuli
    /\ instance' = ~instance
    /\ calls' = Bump("changes")
    /\ UNCHANGED <<authVars, pageVars, boardVars,
                   ledgerVars, chainId, ethersSigner, hookVars, runVars, sent>>

\* the hook is mounted with whatever wallet state the page has
(***************************************************************************)
(* The authorization manager on its own: signers ask for signatures over   *)
(* lists of contracts while the days pass.                                 *)
(***************************************************************************)
Tick ==
    /\ clock < MaxClock
    /\ clock' = clock + 1
    /\ UNCHANGED <<signatureStorage, loaded>>
    /\ UNCHANGED <<ledgerVars, envVars, hookVars, runVars, calls, sent, boardVars, pageVars>>

\* loadOrSign returns a signature, kept or fresh
LoadOrSign(user, contracts) ==
    /\ LET r == loadOrSign(signatureStorage, user, contracts, clock, TRUE)
       IN  /\ signatureStorage' = r.storage
           /\ loaded' = Loaded(user, contracts, clock, r)
    /\ UNCHANGED clock
    /\ UNCHANGED <<ledgerVars, envVars, hookVars, runVars, calls, sent, boardVars, pageVars>>

\* the signer is asked to sign and declines
SignatureDeclined(user, contracts) ==
    /\ LET r == loadOrSign(signatureStorage, user, contracts, clock, FALSE)
       IN  /\ r.signature = <<>>
           /\ signatureStorage' = r.storage
           /\ loaded' = Loaded(user, contracts, clock, r)
    /\ UNCHANGED clock
    /\ UNCHANGED <<ledgerVars, envVars, hookVars, runVars, calls, sent, boardVars, pageVars>>

AuthNext ==
    \/ Tick
    \/ \E user \in Address, contracts \in TargetSets : LoadOrSign(user, contracts)
    \/ \E user \in Address, contracts \in TargetSets : SignatureDeclined(user, contracts)

AuthSpec == Init /\ [][AuthNext]_vars

ClientInit ==
    /\ LedgerInit
    /\ chainId \in ChainIds
    /\ ethersSigner \in Signers
    /\ instance \in BOOLEAN
    /\ HookInit
    /\ AuthInit
    /\ BoardInit
    /\ PageInit

ClientNext ==
    \/ RefreshRequest
    \/ \E run \in refreshRuns : RefreshRead(run)
    \/ \E run \in refreshRuns : RefreshDone(run)
    \/ \E run \in refreshRuns : RefreshRejected(run)
    \/ \E result \in GameResults : hook_submitGameResult(result)
    \/ \E run \in submitRuns : SubmitEncrypted(run)
    \/ \E run \in submitRuns : SubmitFailed(run)
    \/ \E run \in submitRuns : SubmitMined(run)
    \/ \E run \in submitRuns : SubmitWaitRejected(run)
    \/ hook_decryptPlayerResult
    \/ \E run \in decryptRuns : DecryptSigned(run)
    \/ \E run \in decryptRuns : DecryptUnsigned(run)
    \/ \E run \in decryptRuns : DecryptDone(run)
    \/ \E run \in decryptRuns : DecryptFailed(run)
    \/ \E c \in ChainIds : ChainChanged(c)
    \/ \E signer \in Signers : SignerChanged(signer)
    \/ InstanceChanged
    \/ \E tx \in mempool : ExecuteTransaction(tx)

ClientSpec == ClientInit /\ [][ClientNext]_vars

\* the promises of a refresh settle and their handlers run: the node answers
\* getPlayerResult or the call is rejected, and the event loop then runs the
\* .then or the .catch handler
RefreshSettles == \E run \in refreshRuns : RefreshRead(run) \/ RefreshRejected(run)
RefreshHandled == \E run \in refreshRuns : RefreshDone(run)

\* the hook without its decryptions: what starts a refresh, what a refresh
\* waits for, and what changes under it
RefreshNext ==
    \/ RefreshRequest
    \/ \E run \in refreshRuns : RefreshRead(run)
    \/ \E run \in refreshRuns : RefreshDone(run)
    \/ \E run \in refreshRuns : RefreshRejected(run)
    \/ \E result \in GameResults : hook_submitGameResult(result)
    \/ \E run \in submitRuns : SubmitEncrypted(run)
    \/ \E run \in submitRuns : SubmitFailed(run)
    \/ \E run \in submitRuns : SubmitMined(run)
    \/ \E run \in submitRuns : SubmitWaitRejected(run)
    \/ \E c \in ChainIds : ChainChanged(c)
    \/ \E signer \in Signers : SignerChanged(signer)
    \/ \E tx \in mempool : ExecuteTransaction(tx)

\* a wallet connected to the chain of the deployment
Connected ==
    /\ LedgerInit
    /\ chainId = SepoliaChainId
    /\ ethersSigner \in Address
    /\ instance = TRUE
    /\ HookInit
    /\ AuthInit
    /\ BoardInit
    /\ PageInit

RefreshFairSpec ==
    /\ Connected
    /\ [][RefreshNext]_vars
    /\ WF_vars(RefreshSettles)
    /\ WF_vars(RefreshHandled)

\* the external calls of a submission and of a decryption settle, and the run
\* goes on after each await: encrypt() resolves or throws, tx.wait() resolves
\* or throws, loadOrSign resolves, userDecrypt resolves or rejects
EncryptionSettles == \E run \in submitRuns : SubmitEncrypted(run) \/ SubmitFailed(run)
TransactionSettles == \E run \in submitRuns : SubmitMined(run) \/ SubmitWaitRejected(run)
SigningSettles == \E run \in decryptRuns : DecryptSigned(run) \/ DecryptUnsigned(run)
DecryptionSettles == \E run \in decryptRuns : DecryptDone(run) \/ DecryptFailed(run)

\* the hook with a connected wallet, its refreshes started by submissions
SettleNext ==
    \/ \E run \in refreshRuns : RefreshRead(run)
    \/ \E run \in refreshRuns : RefreshDone(run)
    \/ \E run \in refreshRuns : RefreshRejected(run)
    \/ \E result \in GameResults : hook_submitGameResult(result)
    \/ \E run \in submitRuns : SubmitEncrypted(run)
    \/ \E run \in submitRuns : SubmitFailed(run)
    \/ \E run \in submitRuns : SubmitMined(run)
    \/ \E run \in submitRuns : SubmitWaitRejected(run)
    \/ hook_decryptPlayerResult
    \/ \E run \in decryptRuns : DecryptSigned(run)
    \/ \E run \in decryptRuns : DecryptUnsigned(run)
    \/ \E run \in decryptRuns : DecryptDone(run)
    \/ \E run \in decryptRuns : DecryptFailed(run)
    \/ \E c \in ChainIds : ChainChanged(c)
    \/ \E signer \in Signers : SignerChanged(signer)
    \/ \E tx \in mempool : ExecuteTransaction(tx)

SettleFairSpec ==
    /\ Connected
    /\ [][SettleNext]_vars
    /\ WF_vars(EncryptionSettles)
    /\ WF_vars(TransactionSettles)
    /\ WF_vars(SigningSettles)
    /\ WF_vars(DecryptionSettles)

(***************************************************************************)
(* The leaderboard: fetchLeaderboard, against a ledger that entrants join  *)
(* one after the other.                                                    *)
(***************************************************************************)
MaxEntrants == 11      \* accounts that can join the ledger
MaxFetches == 1        \* fetchLeaderboard calls in flight at a time

\* leaderboardData.slice(0, 10)
LeaderboardSize == 10

EntrantNames ==
    <<"p01", "p02", "p03", "p04", "p05", "p06", "p07", "p08", "p09", "p10", "p11",
      "p12", "p13">>
Entrants == { EntrantNames[i] : i \in 1..MaxEntrants }

\* the score of the i-th entrant: neither rising nor falling with i
EntrantScore(i) == (2 * i) % (MaxScore + 1)

Min(a, b) == IF a <= b THEN a ELSE b

\* Array.prototype.slice(start, end), for 0 <= start <= end
slice(array, start, end) == SubSeq(array, start + 1, Min(end, Len(array)))

\* playerAddresses.map((address, index) => ({address, encryptedScore: ...}))
leaderboardData(decoded) ==
    [index \in 1..Len(decoded.playerAddresses) |->
        [address |-> decoded.playerAddresses[index],
         encryptedScore |-> decoded.encryptedScores[index]]]

top10_byScore(decoded) ==
    slice(SortSeq(leaderboardData(decoded),
                  LAMBDA a, b : Decrypt(a.encryptedScore) > Decrypt(b.encryptedScore)),
          0, LeaderboardSize)

top10(decoded) == slice(leaderboardData(decoded), 0, LeaderboardSize)

NothingDecoded == [playerAddresses |-> <<>>, encryptedScores |-> <<>>]

Fetches == Cardinality(leaderboardRuns)

\* fetchLeaderboard(), up to the await of ethersReadonlyProvider.call
hook_fetchLeaderboard ==
    /\ IF linkMatch.address = "" \/ ~ethersReadonlyProvider
       THEN /\ calls' = Ignored("fetchLeaderboard")
            /\ UNCHANGED <<isLoadingLeaderboard, message, leaderboardRuns>>
       ELSE /\ Stimuli < MaxStimuli
            /\ Fetches < MaxFetches
            /\ isLoadingLeaderboard' = TRUE
            /\ message' = "Loading leaderboard..."
            /\ leaderboardRuns' = leaderboardRuns \cup
                    {[id |-> NextId, address |-> linkMatch.address, stage |-> "call",
                      decoded |-> NothingDecoded]}
            /\ calls' = Bump("requests")
    /\ UNCHANGED <<ledgerVars, envVars, playerResultHandle, clearResult, isRefreshing,
                   isDecrypting, isSubmitting, runVars, sent, authVars, pageVars, leaderboard>>

\* the node answers the call of getAllEncryptedScores()
LeaderboardRead(run) ==
    /\ run \in leaderboardRuns
    /\ run.stage = "call"
    /\ leaderboardRuns' = (leaderboardRuns \ {run}) \cup
            {[run EXCEPT !.stage = "answered", !.decoded = getAllEncryptedScores(Ledger)]}
    /\ calls' = Acted
    /\ UNCHANGED <<ledgerVars, envVars, hookVars, runVars, sent, authVars, pageVars, leaderboard,
                   isLoadingLeaderboard>>

\* the rest of the try block, and the finally
LeaderboardLoaded(run) ==
    /\ run \in leaderboardRuns
    /\ run.stage = "answered"
    /\ IF Len(run.decoded.playerAddresses) = 0
       THEN /\ leaderboard' = <<>>
            /\ message' = "No players found"
       ELSE /\ leaderboard' = top10(run.decoded)
            /\ message' = "Leaderboard loaded (ciphertext)"
    /\ isLoadingLeaderboard' = FALSE
    /\ leaderboardRuns' = leaderboardRuns \ {run}
    /\ calls' = Acted
    /\ UNCHANGED <<ledgerVars, envVars, playerResultHandle, clearResult, isRefreshing,
                   isDecrypting, isSubmitting, runVars, sent, authVars, pageVars>>

\* the call is rejected: the catch block, and the finally
LeaderboardFailed(run) ==
    /\ run \in leaderboardRuns
    /\ run.stage = "call"
    /\ leaderboard' = <<>>
    /\ message' = "Failed to load leaderboard"
    /\ isLoadingLeaderboard' = FALSE
    /\ leaderboardRuns' = leaderboardRuns \ {run}
    /\ calls' = Acted
    /\ UNCHANGED <<ledgerVars, envVars, playerResultHandle, clearResult, isRefreshing,
                   isDecrypting, isSubmitting, runVars, sent, authVars, pageVars>>

\* the next entrant's first submission is mined
EntrantSubmits ==
    /\ Len(players) < MaxEntrants
    /\ LET i == Len(players) + 1
           sender == EntrantNames[i]
           input == Encrypt(LinkMatchAddress, sender, EntrantScore(i))
           r == submitGameResult(Ledger, sender, input, now)
       IN  /\ players' = r.state.players
           /\ hasSubmitted' = r.state.hasSubmitted
           /\ playerResults' = r.state.playerResults
           /\ acl' = r.state.acl
           /\ events' = r.state.events
           /\ receipts' = Append(receipts,
                   [sender |-> sender, input |-> input, status |-> r.status])
    /\ UNCHANGED <<now, mempool>>
    /\ UNCHANGED clientVars

\* a ledger nobody has joined, and a page whose wallet has no account yet
LeaderboardInit ==
    /\ players = <<>>
    /\ hasSubmitted = [a \in Entrants |-> FALSE]
    /\ playerResults = [a \in Entrants |-> EncryptedGameResult(ZeroHandle, ZeroAddress, 0)]
    /\ acl = {}
    /\ events = <<>>
    /\ now = 1
    /\ mempool = {}
    /\ receipts = <<>>
    /\ chainId \in ChainIds
    /\ ethersSigner = ""
    /\ instance = FALSE
    /\ HookInit
    /\ AuthInit
    /\ BoardInit
    /\ PageInit

LeaderboardNext ==
    \/ hook_fetchLeaderboard
    \/ \E run \in leaderboardRuns : LeaderboardRead(run)
    \/ \E run \in leaderboardRuns : LeaderboardLoaded(run)
    \/ \E run \in leaderboardRuns : LeaderboardFailed(run)
    \/ EntrantSubmits
    \/ \E c \in ChainIds : ChainChanged(c)

LeaderboardSpec == LeaderboardInit /\ [][LeaderboardNext]_vars

(***************************************************************************)
(* The hook's hasSubmitted state: the effect that reads the ledger's flag  *)
(* for the signer whenever the deployment, the signer or the provider      *)
(* changes.                                                                *)
(***************************************************************************)
\* [linkMatch.address, ethersSigner, ethersReadonlyProvider]
CurrentDeps ==
    [address |-> linkMatch.address, signer |-> ethersSigner,
     provider |-> ethersReadonlyProvider, mounted |-> TRUE]

\* the effect runs after the first render and after a render with other
\* dependencies, and calls hasSubmitted(address) when there are a deployment
\* and a signer
hasSubmittedEffect ==
    /\ effectDeps # CurrentDeps
    /\ effectDeps' = CurrentDeps
    /\ IF linkMatch.address # "" /\ ethersSigner # ""
       THEN effectRuns' = effectRuns \cup
                {[address |-> linkMatch.address, player |-> ethersSigner,
                  stage |-> "call", submitted |-> FALSE]}
       ELSE UNCHANGED effectRuns
    /\ UNCHANGED <<hook_hasSubmitted, gameVars>>
    /\ UNCHANGED <<ledgerVars, envVars, hookVars, runVars, calls, sent, authVars, boardVars>>

\* the node answers contract.hasSubmitted(address)
EffectRead(run) ==
    /\ run \in effectRuns
    /\ run.stage = "call"
    /\ effectRuns' = (effectRuns \ {run}) \cup
            {[run EXCEPT !.stage = "answered",
                         !.submitted = checkPlayerSubmitted(Ledger, run.player)]}
    /\ UNCHANGED <<hook_hasSubmitted, effectDeps, gameVars>>
    /\ UNCHANGED <<ledgerVars, envVars, hookVars, runVars, calls, sent, authVars, boardVars>>

\* .then((submitted) => setHasSubmitted(submitted))
EffectApplied(run) ==
    /\ run \in effectRuns
    /\ run.stage = "answered"
    /\ hook_hasSubmitted' = run.submitted
    /\ effectRuns' = effectRuns \ {run}
    /\ UNCHANGED <<effectDeps, gameVars>>
    /\ UNCHANGED <<ledgerVars, envVars, hookVars, runVars, calls, sent, authVars, boardVars>>

\* the call is rejected: no handler, nothing is set
EffectRejected(run) ==
    /\ run \in effectRuns
    /\ run.stage = "call"
    /\ effectRuns' = effectRuns \ {run}
    /\ UNCHANGED <<hook_hasSubmitted, effectDeps, gameVars>>
    /\ UNCHANGED <<ledgerVars, envVars, hookVars, runVars, calls, sent, authVars, boardVars>>

FlagNext ==
    \/ hasSubmittedEffect
    \/ \E run \in effectRuns : EffectRead(run)
    \/ \E run \in effectRuns : EffectApplied(run)
    \/ \E run \in effectRuns : EffectRejected(run)
    \/ \E result \in GameResults : hook_submitGameResult(result)
    \/ \E run \in submitRuns : SubmitEncrypted(run)
    \/ \E run \in submitRuns : SubmitFailed(run)
    \/ \E run \in submitRuns : SubmitMined(run)
    \/ \E run \in submitRuns : SubmitWaitRejected(run)
    \/ \E run \in refreshRuns : RefreshRead(run)
    \/ \E run \in refreshRuns : RefreshDone(run)
    \/ \E run \in refreshRuns : RefreshRejected(run)
    \/ \E c \in ChainIds : ChainChanged(c)
    \/ \E signer \in Signers : SignerChanged(signer)
    \/ \E tx \in mempool : ExecuteTransaction(tx)

FlagSpec == Connected /\ [][FlagNext]_vars

(***************************************************************************)
(* The tile game (LinkMatchGame).  Cell ids are the positions of the grid, *)
(* counted from 1; value 0 is an eliminated cell.                          *)
(***************************************************************************)
GamePairs == 2          \* pairsNeeded of the grids of the model
MaxTimers == 2          \* setTimeout callbacks pending at a time

TotalCells == 2 * GamePairs
Cells == 1..TotalCells

\* generateGrid: every pattern index twice, in any order
generateGrid ==
    {g \in [Cells -> 1..GamePairs] :
        \A v \in 1..GamePairs : Cardinality({c \in Cells : g[c] = v}) = 2}

\* the completion effect is due: playing and no cell with a value is left;
\* it runs after the render, before the next event or timer is handled
CompletionDue ==
    /\ gameState = "playing"
    /\ \A c \in DOMAIN grid : grid[c] = 0

gameFrame ==
    UNCHANGED <<ledgerVars, envVars, hookVars, runVars, calls, sent, authVars,
                boardVars, flagVars>>

\* the Start Game button of the setup screen
startGame ==
    /\ gameState = "waiting"
    /\ \E newGrid \in generateGrid : grid' = newGrid
    /\ selectedCells' = <<>>
    /\ matches' = 0
    /\ gameState' = "playing"
    /\ UNCHANGED <<timers, completed>>
    /\ gameFrame

\* the End Game button of the playing screen
endGame ==
    /\ gameState = "playing"
    /\ ~CompletionDue
    /\ completed' = <<matches>>
    /\ gameState' = "waiting"
    /\ grid' = <<>>
    /\ selectedCells' = <<>>
    /\ matches' = 0
    /\ UNCHANGED timers
    /\ gameFrame

Without(selected, cellId) == SelectSeq(selected, LAMBDA id : id # cellId)

Includes(selected, cellId) == \E i \in 1..Len(selected) : selected[i] = cellId

\* a click on a cell that still has a value, while playing (disabled is false)
handleCellClick(cellId) ==
    /\ gameState = "playing"
    /\ ~CompletionDue
    /\ grid[cellId] # 0
    /\ IF Includes(selectedCells, cellId)
       THEN /\ selectedCells' = Without(selectedCells, cellId)
            /\ UNCHANGED timers
       ELSE IF Len(selectedCells) >= 2
       THEN /\ selectedCells' = <<cellId>>
            /\ UNCHANGED timers
       ELSE LET newSelected == Append(selectedCells, cellId)
            IN /\ selectedCells' = newSelected
               /\ IF Len(newSelected) = 2
                  THEN /\ Len(timers) < MaxTimers
                       /\ timers' = Append(timers,
                            [kind |-> IF grid[newSelected[1]] = grid[newSelected[2]]
                                      THEN "match" ELSE "mismatch",
                             firstId |-> newSelected[1],
                             secondId |-> newSelected[2]])
                  ELSE UNCHANGED timers
    /\ UNCHANGED <<grid, matches, gameState, completed>>
    /\ gameFrame

\* timer i is the next to run: no older timer is pending that is due earlier
\* (a match timer runs after 300 ms, a mismatch timer after 500 ms)
Due(i) ==
    /\ i \in 1..Len(timers)
    /\ \A j \in 1..(i - 1) :
          timers[j].kind = "mismatch" /\ timers[i].kind = "match"

Remaining(i) == SubSeq(timers, 1, i - 1) \o SubSeq(timers, i + 1, Len(timers))

\* the callback of the 300 ms timer, on the grid of the moment it runs
MatchTimer(i) ==
    /\ Due(i)
    /\ ~CompletionDue
    /\ timers[i].kind = "match"
    /\ grid' = [c \in DOMAIN grid |->
                  IF c \in {timers[i].firstId, timers[i].secondId} THEN 0 ELSE grid[c]]
    /\ selectedCells' = <<>>
    /\ matches' = matches + 1
    /\ timers' = Remaining(i)
    /\ UNCHANGED <<gameState, completed>>
    /\ gameFrame

\* the callback of the 500 ms timer
MismatchTimer(i) ==
    /\ Due(i)
    /\ ~CompletionDue
    /\ timers[i].kind = "mismatch"
    /\ selectedCells' = <<>>
    /\ timers' = Remaining(i)
    /\ UNCHANGED <<grid, matches, gameState, completed>>
    /\ gameFrame

\* the completion effect
gameCompleted ==
    /\ CompletionDue
    /\ completed' = <<matches>>
    /\ gameState' = "waiting"
    /\ grid' = <<>>
    /\ selectedCells' = <<>>
    /\ matches' = 0
    /\ UNCHANGED timers
    /\ gameFrame

GameNext ==
    \/ startGame
    \/ endGame
    \/ \E cellId \in Cells : handleCellClick(cellId)
    \/ \E i \in 1..Len(timers) : MatchTimer(i)
    \/ \E i \in 1..Len(timers) : MismatchTimer(i)
    \/ gameCompleted

GameSpec == Connected /\ [][GameNext]_vars

(***************************************************************************)
(* Claims about the hook.                                                  *)
(***************************************************************************)
\* what a run captured is what the page has now
CapturedIsCurrent(run) ==
    /\ run.address = getLinkMatchByChainId(chainId, CONTRACT_ADDRESS).address
    /\ run.chainId = chainId
    /\ run.signer = ethersSigner

\* the step ends the encryption of the run
EncryptionCompletes(run) ==
    /\ run \in submitRuns
    /\ run.stage = "encrypt"
    /\ run \notin submitRuns'

\* C12: when the ledger address, the chain or the signer a submission captured
\* is no longer the current one at the moment its encryption completes, the
\* step sends no transaction and leaves the ledger as it is.
C12_StaleSubmissionSendsNothing ==
    [][\A run \in submitRuns :
          EncryptionCompletes(run) /\ ~CapturedIsCurrent(run)
              => /\ sent' = sent
                 /\ mempool' = mempool
                 /\ Ledger' = Ledger]_vars

\* a submission was started, the wallet changed, the encryption completed,
\* and nothing was sent
C12_Witness ==
    /\ calls.encrypt = 1
    /\ calls.changes = 1
    /\ submitRuns = {}
    /\ message = "Ignore submit"
    /\ sent = <<>>
    /\ mempool = {}
    /\ receipts = <<>>

RunIds(runs) == { run.id : run \in runs }

\* C13: at most one submission is in flight, and a step taken while one is
\* pending starts no submission and no encryption; a transaction is sent only
\* by the pending submission whose encryption completes.
C13_OneSubmissionInFlight ==
    /\ [](Cardinality(submitRuns) <= 1)
    /\ [][submitRuns # {}
            => /\ RunIds(submitRuns') \subseteq RunIds(submitRuns)
               /\ calls'.encrypt = calls.encrypt
               /\ Len(sent') > Len(sent) => \E run \in submitRuns : EncryptionCompletes(run)]_vars

\* submitGameResult was called while a submission was pending, everything
\* else it needs being there, and returned at its first guard
C13_Witness ==
    /\ calls.ignored = "submitGameResult"
    /\ Cardinality(submitRuns) = 1
    /\ isSubmitting
    /\ ~isRefreshing
    /\ linkMatch.address # ""
    /\ instance
    /\ ethersSigner # ""

\* the transaction was executed and accepted
Applied(tx) ==
    \E k \in 1..Len(receipts) :
        /\ receipts[k].sender = tx.sender
        /\ receipts[k].input = tx.input
        /\ receipts[k].status = "ok"

\* C14, as the specification states it: a submission that ended with an error,
\* the wait for the receipt included, has left the ledger unchanged.
C14_FailedAttemptLeavesLedgerUnchanged ==
    \A i \in 1..Len(sent) : sent[i].outcome = "failed" => ~Applied(sent[i].tx)

\* the step ends the run, which had sent nothing yet
EndsBeforeSending(run) ==
    /\ run \in submitRuns
    /\ run.stage = "encrypt"
    /\ run.id \notin RunIds(submitRuns')

\* the step ends the run, which had sent its transaction
EndsAfterSending(run) ==
    /\ run \in submitRuns
    /\ run.stage = "wait"
    /\ run.id \notin RunIds(submitRuns')

\* C14: a submit request sends at most one transaction and none again after an
\* error.  A run that ends before it sent anything sends nothing, leaves the
\* ledger as it is and, its target still being the current one, shows the
\* error.  A run that ends after it sent shows the error unless its
\* transaction was accepted; its step sends nothing and changes no ledger
\* state, but the transaction it sent stays with the chain.
C14_AtMostOneAttempt ==
    /\ [](\A i, j \in 1..Len(sent) : sent[i].id = sent[j].id => i = j)
    /\ [][\A run \in submitRuns :
            /\ EndsBeforeSending(run)
                => /\ Len(sent') = Len(sent)
                   /\ mempool' = mempool
                   /\ Ledger' = Ledger
                   /\ CapturedIsCurrent(run) => message' = "Submit Failed!"
            /\ EndsAfterSending(run)
                => /\ Len(sent') = Len(sent)
                   /\ mempool' = mempool
                   /\ Ledger' = Ledger
                   /\ ~Applied(RunTransaction(run)) => message' = "Submit Failed!"]_vars

\* the wait for the receipt failed, the error was shown, nothing was sent
\* again, and the transaction was applied all the same
C14_Witness ==
    /\ Len(sent) = 1
    /\ sent[1].outcome = "failed"
    /\ Applied(sent[1].tx)
    /\ calls.encrypt = 1

\* what submitGameResult and decryptPlayerResult need of the wallet is missing
NothingToSignWith ==
    \/ getLinkMatchByChainId(chainId, CONTRACT_ADDRESS).address = ""
    \/ ~instance
    \/ ethersSigner = ""

\* C15: while the signer, the FHE instance or the ledger address is missing, no
\* step starts a submission: none sets the in-flight flag, starts a run or an
\* encryption, and a call of submitGameResult changes nothing at all; a
\* transaction is sent only by a run started before.
C15_SubmitNeedsSignerInstanceAddress ==
    [][NothingToSignWith
         => /\ RunIds(submitRuns') \subseteq RunIds(submitRuns)
            /\ calls'.encrypt = calls.encrypt
            /\ isSubmitting' => isSubmitting
            /\ Len(sent') > Len(sent) => \E run \in submitRuns : run.stage = "encrypt"
            /\ calls' # calls /\ calls'.ignored = "submitGameResult"
                 => /\ UNCHANGED <<ledgerVars, envVars, hookVars, runVars, sent, authVars, pageVars, boardVars>>
                    /\ calls' = [calls EXCEPT !.ignored = "submitGameResult"]]_vars

\* submitGameResult was called with nothing in flight and a part of the wallet
\* missing, and returned
C15_Witness ==
    /\ calls.ignored = "submitGameResult"
    /\ NothingToSignWith
    /\ ~isRefreshing
    /\ ~isSubmitting
    /\ submitRuns = {}
    /\ calls.encrypt = 0
    /\ sent = <<>>

\* nothing of the hook is in flight and the chain has nothing left to execute
AllSettled ==
    /\ submitRuns = {}
    /\ refreshRuns = {}
    /\ decryptRuns = {}
    /\ mempool = {}

\* C16: when the latest thing the hook reported is a completed submission, the
\* wallet never changed and everything has settled, the cached handle is the
\* handle the ledger stores for the signer.
C16_HandleFollowsSubmission ==
    (/\ AllSettled
     /\ message = "Submit completed"
     /\ calls.changes = 0
     /\ ethersSigner \in Address)
        => /\ getPlayerResult(Ledger, ethersSigner).ok
           /\ playerResultHandle = getPlayerResult(Ledger, ethersSigner).value

\* the step calls the backend's userDecrypt for the run
CallsUserDecrypt(run) ==
    /\ run \in decryptRuns
    /\ run.stage = "loadOrSign"
    /\ [run EXCEPT !.stage = "userDecrypt"] \in decryptRuns'

\* the step ends the run
DecryptionEnds(run) ==
    /\ run \in decryptRuns
    /\ run.id \notin RunIds(decryptRuns')

\* C17: userDecrypt is called only for a run whose captured address, chain and
\* signer are the current ones; the clear-result cache changes only when a run
\* that got as far as that call ends with its captures still current, and then
\* to the plaintext of the run's handle; a run that ends with a capture no
\* longer current leaves the cache as it is.
C17_StaleDecryptionIsDiscarded ==
    [][/\ \A run \in decryptRuns :
            /\ CallsUserDecrypt(run) => CapturedIsCurrent(run)
            /\ DecryptionEnds(run) /\ ~CapturedIsCurrent(run) => clearResult' = clearResult
       /\ clearResult' # clearResult
            => \E run \in decryptRuns :
                  /\ DecryptionEnds(run)
                  /\ run.stage = "userDecrypt"
                  /\ CapturedIsCurrent(run)
                  /\ clearResult' = <<run.handle, Decrypt(run.handle)>>]_vars

\* userDecrypt was called once, the wallet changed before it answered, and the
\* plaintext was discarded
C17_Witness ==
    /\ calls.loadOrSign = 1
    /\ calls.userDecrypt = 1
    /\ calls.changes = 1
    /\ decryptRuns = {}
    /\ message = "Ignore FHEVM decryption"
    /\ clearResult = <<>>

\* a handle that stands for no value: none, the empty string, the zero hash
NoValue == {<<>>, EmptyScore, ZeroHandle}

\* C18: the hook never caches an empty or an all-zero handle, no decryption in
\* flight is for a handle that stands for no value, and while the cached
\* handle is absent no step requests an authorization or starts a decryption.
C18_NothingToDecryptWithoutHandle ==
    /\ [](playerResultHandle \notin {EmptyScore, ZeroHandle})
    /\ [](\A run \in decryptRuns : run.handle \notin NoValue)
    /\ [][(playerResultHandle \in NoValue)
            => /\ calls'.loadOrSign = calls.loadOrSign
               /\ RunIds(decryptRuns') \subseteq RunIds(decryptRuns)
               /\ (isDecrypting' => isDecrypting)]_vars

\* decryptPlayerResult was called with wallet, instance and address there and
\* nothing in flight, but no handle cached, and returned
C18_Witness ==
    /\ calls.ignored = "decryptPlayerResult"
    /\ playerResultHandle = <<>>
    /\ ~NothingToSignWith
    /\ ~isRefreshing
    /\ ~isDecrypting
    /\ calls.loadOrSign = 0

\* the clear-result cache holds the plaintext of the cached handle
CacheIsCurrent ==
    /\ playerResultHandle # <<>>
    /\ clearResult # <<>>
    /\ clearResult[1] = playerResultHandle

\* C19: while the clear-result cache holds the plaintext of the cached handle,
\* no step requests an authorization or starts a decryption, and a call of
\* decryptPlayerResult changes nothing; so the backend is not asked again for
\* a handle whose plaintext is cached.
C19_CachedPlaintextIsNotDecryptedAgain ==
    [][CacheIsCurrent
         => /\ calls'.loadOrSign = calls.loadOrSign
            /\ RunIds(decryptRuns') \subseteq RunIds(decryptRuns)
            /\ calls' # calls /\ calls'.ignored = "decryptPlayerResult"
                 => /\ UNCHANGED <<ledgerVars, envVars, hookVars, runVars, sent, authVars, pageVars, boardVars>>
                    /\ calls' = [calls EXCEPT !.ignored = "decryptPlayerResult"]]_vars

\* the handle was decrypted once, and decryptPlayerResult, called again with
\* everything it needs and nothing in flight, returned
C19_Witness ==
    /\ calls.ignored = "decryptPlayerResult"
    /\ CacheIsCurrent
    /\ clearResult[2] = Decrypt(playerResultHandle)
    /\ ~NothingToSignWith
    /\ ~isRefreshing
    /\ ~isDecrypting
    /\ calls.loadOrSign = 1
    /\ calls.userDecrypt = 1

\* C20: at most one decryption is in flight, and a step taken while one is
\* running requests no authorization and starts no decryption; userDecrypt is
\* called only by the running decryption and only once.
C20_OneDecryptionInFlight ==
    /\ [](Cardinality(decryptRuns) <= 1)
    /\ [](calls.userDecrypt <= calls.loadOrSign)
    /\ [][decryptRuns # {}
            => /\ RunIds(decryptRuns') \subseteq RunIds(decryptRuns)
               /\ calls'.loadOrSign = calls.loadOrSign
               /\ calls'.userDecrypt # calls.userDecrypt
                    => /\ calls'.userDecrypt = calls.userDecrypt + 1
                       /\ \E run \in decryptRuns : CallsUserDecrypt(run)]_vars

\* decryptPlayerResult was called while a decryption was running, everything
\* else it needs being there, and returned at its first guard
C20_Witness ==
    /\ calls.ignored = "decryptPlayerResult"
    /\ Cardinality(decryptRuns) = 1
    /\ isDecrypting
    /\ ~isRefreshing
    /\ ~NothingToSignWith
    /\ playerResultHandle # <<>>
    /\ calls.loadOrSign = 1

\* C21: when no decryption is running any more, the message does not still
\* say that the backend call is under way: a decryption whose userDecrypt
\* failed has told the user so.
C21_BackendFailureIsSurfaced ==
    decryptRuns = {} => message # "Call FHEVM userDecrypt..."


\* C22: a decryption whose signer declines to sign ends there: the message
\* says that the signature could not be built, userDecrypt is not called, and
\* the signatures kept and the cached clear result stay as they were.
C22_DeclinedSigningStopsTheDecryption ==
    [][\A run \in decryptRuns :
          (/\ run.stage = "loadOrSign"
           /\ run \notin decryptRuns'
           /\ loaded'.signature = <<>>)
          => /\ message' = "Unable to build FHEVM decryption signature"
             /\ calls'.userDecrypt = calls.userDecrypt
             /\ RunIds(decryptRuns') = RunIds(decryptRuns) \ {run.id}
             /\ signatureStorage' = signatureStorage
             /\ clearResult' = clearResult]_vars

\* a decryption asked for a signature, the signer declined, and it has ended
C22_Witness ==
    /\ loaded.prompted
    /\ loaded.signature = <<>>
    /\ loaded.userAddress \in Address
    /\ message = "Unable to build FHEVM decryption signature"
    /\ decryptRuns = {}
    /\ calls.loadOrSign > 0
    /\ calls.userDecrypt = 0

\* C24: a call of loadOrSign at day t for the key of a kept signature with
\* start s and duration d returns that signature, without asking the signer,
\* when s <= t <= s + d - 1; when t >= s + d the signer is asked, and if the
\* signer signs, a signature starting at t takes the place of the kept one.
C24_ValidWithinWindowOnly ==
    [][loaded' # loaded =>
          \A sig \in Keyed(signatureStorage, loaded'.userAddress,
                           loaded'.contractAddresses) :
             LET s == sig.startTimestamp
                 d == sig.durationDays
                 t == loaded'.at
             IN  /\ (s <= t /\ t <= s + d - 1)
                       => /\ loaded'.signature = <<sig>>
                          /\ ~loaded'.prompted
                          /\ signatureStorage' = signatureStorage
                 /\ t >= s + d
                       => /\ loaded'.prompted
                          /\ loaded'.signature # <<sig>>
                          /\ loaded'.signature # <<>>
                                => /\ loaded'.signature[1].startTimestamp = t
                                   /\ loaded'.signature[1] \in signatureStorage'
                                   /\ sig \notin signatureStorage']_vars

\* a kept signature was accepted on the last day of its window
C24_Witness ==
    /\ loaded.signature # <<>>
    /\ ~loaded.prompted
    /\ loaded.signature[1] \in signatureStorage
    /\ loaded.at = loaded.signature[1].startTimestamp
                      + loaded.signature[1].durationDays - 1

\* C25: loadOrSign never returns a signature of another signer or for another
\* list of contracts than it was called with, and when no signature is kept
\* for exactly that signer and that list the signer is asked to sign.
C25_SignatureOfAnotherKeyIsNotReused ==
    [][loaded' # loaded =>
          /\ loaded'.signature # <<>>
                => /\ loaded'.signature[1].userAddress = loaded'.userAddress
                   /\ loaded'.signature[1].contractAddresses = loaded'.contractAddresses
          /\ Keyed(signatureStorage, loaded'.userAddress, loaded'.contractAddresses) = {}
                => loaded'.prompted]_vars

\* a signer was asked for a fresh signature while a signature of the other
\* signer for the same contracts, made earlier, was kept and still in its window
C25_Witness ==
    /\ loaded.prompted
    /\ loaded.signature # <<>>
    /\ \E sig \in signatureStorage :
          /\ sig.userAddress # loaded.userAddress
          /\ sig.contractAddresses = loaded.contractAddresses
          /\ sig.startTimestamp < loaded.at
          /\ loaded.at < sig.startTimestamp + sig.durationDays

\* C23: when everything has settled, a cached handle is a handle of the signer
\* now active, fetched from the ledger of the chain now connected.
C23_HandleIsOfCurrentWallet ==
    (AllSettled /\ playerResultHandle # <<>>)
        => /\ linkMatch.address = LinkMatchAddress
           /\ HandleOwner(playerResultHandle) = ethersSigner

\* C28: the handler of a refresh whose getPlayerResult answered with a handle
\* leaves the cached handle alone when the signer is no longer the one the
\* handle was fetched for.
C28_HandleOfFormerSignerIsDiscarded ==
    [][\A run \in refreshRuns :
          (/\ run.stage = "responded"
           /\ run \notin refreshRuns'
           /\ run.result.ok
           /\ run.player # ethersSigner)
          => playerResultHandle' = playerResultHandle]_vars

\* C29: a clear result that is there is the decryption of the handle the
\* ledger of the connected chain now stores for the active signer.
C29_ClearResultIsOfCurrentRecord ==
    clearResult # <<>>
        => /\ ethersSigner \in Address
           /\ linkMatch.address = LinkMatchAddress
           /\ getPlayerResult(Ledger, ethersSigner).ok
           /\ clearResult[1] = getPlayerResult(Ledger, ethersSigner).value
           /\ clearResult[2] = Decrypt(getPlayerResult(Ledger, ethersSigner).value)

\* a decryption waiting for loadOrSign while no signature kept for its signer
\* and contract is valid: the signer is being asked to sign
Prompting(run) ==
    /\ run.stage = "loadOrSign"
    /\ \A sig \in signatureStorage : ~isValid(sig, run.signer, {run.address}, clock)

\* C26: at most one decryption is waiting for its authorization, and while
\* one is, no step starts another wait or another call of loadOrSign; the
\* signer is asked to sign only by the decryption that is waiting.
C26_OneSigningRoundInFlight ==
    /\ [](Cardinality({ run \in decryptRuns : run.stage = "loadOrSign" }) <= 1)
    /\ [][(\E run \in decryptRuns : run.stage = "loadOrSign")
            => /\ calls'.loadOrSign = calls.loadOrSign
               /\ \A run \in decryptRuns' :
                     run.stage = "loadOrSign" => run \in decryptRuns]_vars
    /\ [][(loaded' # loaded /\ loaded'.prompted)
            => \E run \in decryptRuns :
                  /\ Prompting(run)
                  /\ run \notin decryptRuns'
                  /\ loaded'.userAddress = run.signer
                  /\ loaded'.contractAddresses = {run.address}]_vars

\* decryptPlayerResult was called while the signer was being asked to sign for
\* an earlier call, and returned at its first guard
C26_Witness ==
    /\ calls.ignored = "decryptPlayerResult"
    /\ \E run \in decryptRuns : Prompting(run)
    /\ ~isRefreshing
    /\ ~NothingToSignWith
    /\ playerResultHandle # <<>>
    /\ calls.loadOrSign = 1

C30_RefreshingFlagIsCleared == isRefreshing ~> ~isRefreshing

\* a refresh whose call failed has ended, with the flag cleared
C30_Witness ==
    /\ message = "LinkMatch.getPlayerResult() call failed!"
    /\ ~isRefreshing
    /\ refreshRuns = {}
    /\ calls.requests > 0

\* C31: whenever the submitting flag is set it is cleared later, and whenever
\* the decrypting flag is set it is cleared later, however the attempt ends.
C31_InFlightFlagsAreCleared ==
    /\ isSubmitting ~> ~isSubmitting
    /\ isDecrypting ~> ~isDecrypting

\* a decryption has ended as stale after a submission had ended, both flags
\* cleared
C31_Witness ==
    /\ message = "Ignore FHEVM decryption"
    /\ ~isSubmitting
    /\ ~isDecrypting
    /\ submitRuns = {}
    /\ decryptRuns = {}
    /\ Len(sent) > 0
    /\ calls.loadOrSign > 0

\* C32: a refresh in flight has the refreshing flag set, and while the flag is
\* set no step starts a submission or a decryption, encrypts or asks for an
\* authorization; a call of submitGameResult or decryptPlayerResult made then
\* changes nothing.
C32_NothingStartsDuringRefresh ==
    /\ [](refreshRuns # {} => isRefreshing)
    /\ [][isRefreshing
            => /\ RunIds(submitRuns') \subseteq RunIds(submitRuns)
               /\ RunIds(decryptRuns') \subseteq RunIds(decryptRuns)
               /\ calls'.encrypt = calls.encrypt
               /\ calls'.loadOrSign = calls.loadOrSign
               /\ (isSubmitting' => isSubmitting)
               /\ (isDecrypting' => isDecrypting)
               /\ (calls' # calls
                   /\ calls'.ignored \in {"submitGameResult", "decryptPlayerResult"})
                     => UNCHANGED <<ledgerVars, envVars, hookVars, runVars, sent,
                                    authVars, pageVars, boardVars>>]_vars

\* submitGameResult was called during a refresh, with signer, instance and
\* deployment there and no submission pending, and returned at its first guard
C32_Witness ==
    /\ isRefreshing
    /\ refreshRuns # {}
    /\ calls.ignored = "submitGameResult"
    /\ ~NothingToSignWith
    /\ ~isSubmitting
    /\ submitRuns = {}

\* how often p occurs in players
Occurrences(p) == Cardinality({ i \in 1..Len(players) : players[i] = p })

\* C33: a participant has hasSubmitted set exactly when it occurs in players,
\* it then occurs there once and its record names it as the player; and no
\* step resets hasSubmitted or removes a participant from players.
C33_SubmittedIffListedOnce ==
    /\ [](\A p \in Address :
            /\ hasSubmitted[p] <=> Occurrences(p) > 0
            /\ Occurrences(p) <= 1
            /\ hasSubmitted[p] => playerResults[p].player = p)
    /\ [][\A p \in Address :
            hasSubmitted[p] => /\ hasSubmitted'[p]
                               /\ Occurrences(p)' = 1]_vars

\* both participants are listed and one of them has submitted more than once
C33_Witness ==
    /\ Len(players) = 2
    /\ \A p \in Address : hasSubmitted[p]
    /\ \E p \in Address : Cardinality(AcceptedFrom(p)) >= 2

\* C34: a step that executes a transaction of one sender leaves, for every
\* other participant, the stored record (handle, player, timestamp), the
\* hasSubmitted flag and the place in players as they were; players changes
\* at most by the sender being appended.
C34_OtherRecordsUntouched ==
    [][\A tx \in ExecutedIn(mempool, mempool') :
          /\ \A q \in Address \ {tx.sender} :
                /\ playerResults'[q] = playerResults[q]
                /\ hasSubmitted'[q] = hasSubmitted[q]
                /\ \A i \in 1..Len(players) : players[i] = q => players'[i] = q
                /\ Occurrences(q)' = Occurrences(q)
          /\ \/ players' = players
             \/ players' = Append(players, tx.sender)]_vars

\* a participant submitted again, at a later time, after another participant
\* had registered, whose record still carries the earlier timestamp
C34_Witness ==
    /\ Len(players) = 2
    /\ Cardinality(AcceptedFrom(players[1])) >= 2
    /\ playerResults[players[1]].timestamp > playerResults[players[2]].timestamp
    /\ Last(receipts).sender = players[1]
    /\ Last(receipts).status = "ok"

\* C35: when no fetch is in flight, a leaderboard that has entries was read
\* from the ledger address that is now active.
C35_LeaderboardIsOfActiveLedger ==
    (leaderboardRuns = {} /\ leaderboard # <<>>)
        => linkMatch.address = LinkMatchAddress

\* C36: when nothing is in flight, every submission the hook sent was reported
\* completed, the effect has run for the present deployment and signer and
\* its read has been applied, the hook's hasSubmitted is the ledger's
\* hasSubmitted of the signer.
C36_FlagFollowsLedger ==
    (/\ AllSettled
     /\ \A i \in 1..Len(sent) : sent[i].outcome = "completed"
     /\ effectRuns = {}
     /\ effectDeps = CurrentDeps
     /\ ethersSigner \in Address
     /\ linkMatch.address = LinkMatchAddress)
        => hook_hasSubmitted = hasSubmitted[ethersSigner]

Eliminated == {c \in DOMAIN grid : grid[c] = 0}

\* C37: in the tile game the matches counter is the number of pairs
\* eliminated from the current grid, the count passed to onGameComplete is at
\* most the number of pairs of a grid, and the cells eliminated by one step
\* are two cells that had equal values.
C37_MatchesCountEliminatedPairs ==
    /\ [](/\ 2 * matches = Cardinality(Eliminated)
          /\ completed # NothingCompleted => completed[1] <= GamePairs)
    /\ [][LET gone == {c \in DOMAIN grid : grid[c] # 0 /\ grid'[c] = 0}
          IN (gameState' = "playing" /\ gameState = "playing" /\ gone # {})
                => /\ Cardinality(gone) = 2
                   /\ \A c, d \in gone : grid[c] = grid[d]]_vars
====
